---- MODULE Spec2Model ----
(***************************************************************************)
(* A model of the computational core of TrackStar: the matrix kernel, the  *)
(* covariance matrix and datum construction, the sample container, the     *)
(* (OpenMP-threaded) likelihood engine and its per-datum terms, the        *)
(* quadrature, and the indexing, projection and comparison of track and    *)
(* datum objects.                                                          *)
(*                                                                         *)
(* Real numbers are modelled in exact arithmetic, as reduced fractions     *)
(* <<numerator, denominator>>; a denominator of 0 stands for the IEEE      *)
(* non-finite values (<<1,0>> = +inf, <<-1,0>> = -inf, <<0,0>> = NaN).     *)
(* Rounding of double precision arithmetic is not modelled.                *)
(***************************************************************************)
EXTENDS Integers, Sequences, FiniteSets, Bags, TLC

VARIABLES
    \* ---- matrix kernel (trackstar.matrix objects) ----
    mat,        \* the MATRIX held by a trackstar.matrix object
    mop,        \* the last method called on it and what it returned / raised
    \* ---- datum and its covariance matrix ----
    dat,        \* the datum object: labels, vector, cov (matrix and inv)
    cop,        \* the last operation on the datum / covariance matrix
    nwrites,    \* number of covariance-matrix assignments made so far
    \* ---- samples ----
    heap,       \* the datum objects created so far (a datum's id is its index)
    samples,    \* the sample objects: each the sequence of the ids of its data
    sop,        \* the last operation on a sample and what it returned / raised
    \* ---- the likelihood of a sample, threaded ----
    ltrack,     \* the track: weights, flags, n_threads
    ldata,      \* the sample: the labels of each of its data
    lik,        \* loglikelihood_sample: phase, claimed indices, weight_norm, result
    thr,        \* each thread of the team: its position in loglikelihood_datum
    by_thread,  \* the partial sums, one slot per thread
    CALLING_FUNCTION,   \* the static flag of likelihood.c
    ghost,      \* history: calls, writes and evaluations counted
    \* ---- quadrature ----
    intgrl,     \* the INTEGRAL handed to quad
    quad_call   \* the call of quad: what it returned, the bins of its last sum

matVars == <<mat, mop>>
covVars == <<dat, cop, nwrites>>
smpVars == <<heap, samples, sop>>
likVars == <<ltrack, ldata, lik, thr, by_thread, CALLING_FUNCTION, ghost>>
quadVars == <<intgrl, quad_call>>
vars == <<mat, mop, dat, cop, nwrites, heap, samples, sop,
          ltrack, ldata, lik, thr, by_thread, CALLING_FUNCTION, ghost,
          intgrl, quad_call>>

(***************************************************************************)
(* Bounds of the model.                                                    *)
(***************************************************************************)
MaxDim == 3          \* largest matrix size explored
MaxEntry == 2        \* matrix entries and input values range over -1..MaxEntry
MaxNonzero == 4      \* at most this many nonzero entries in an input matrix
MaxDatumDim == 2     \* largest datum dimension explored
MaxWrites == 2       \* covariance-matrix assignments per datum explored
MaxData == 2         \* datum objects created / data per sample
MaxSamples == 2      \* sample objects (the original and those derived from it)
MaxValue == 1        \* measured values range over 0..MaxValue
MaxVertices == 2     \* vertices of the track of a likelihood evaluation
MaxWeight == 1       \* track weights range over 0..MaxWeight
MaxSampleSize == 2   \* data of the sample of a likelihood evaluation
MaxThreads == 2      \* n_threads ranges over 1..MaxThreads
MaxAssignedWeight == 2   \* values assigned to a track weight: 0..MaxAssignedWeight
MaxCpuCount == 2     \* active CPUs of the machine: 1..MaxCpuCount
MaxThreadRequest == 21   \* values assigned to n_threads: -1..MaxThreadRequest

(***************************************************************************)
(* Exact arithmetic on fractions.                                          *)
(***************************************************************************)
Abs(x) == IF x < 0 THEN -x ELSE x
Sgn(x) == IF x < 0 THEN -1 ELSE IF x > 0 THEN 1 ELSE 0

RECURSIVE GCD(_, _)
GCD(a, b) == IF b = 0 THEN a ELSE GCD(b, a % b)

Zero == <<0, 1>>
One == <<1, 1>>
NaN == <<0, 0>>
R(n) == <<n, 1>>

RNorm(n, d) ==
    IF d = 0 THEN <<Sgn(n), 0>>
    ELSE LET g == GCD(Abs(n), Abs(d))
             s == IF d < 0 THEN -1 ELSE 1
         IN  <<(s * n) \div g, (s * d) \div g>>

RAdd(a, b) ==
    IF a[2] = 0 /\ b[2] = 0
    THEN (IF a = b THEN a ELSE NaN)
    ELSE RNorm(a[1] * b[2] + b[1] * a[2], a[2] * b[2])

RNeg(a) == <<-a[1], a[2]>>
RMul(a, b) == RNorm(a[1] * b[1], a[2] * b[2])
RInv(a) ==
    IF a[1] > 0 THEN <<a[2], a[1]>>
    ELSE IF a[1] < 0 THEN <<-a[2], -a[1]>>
    ELSE IF a[2] = 0 THEN NaN ELSE <<1, 0>>
RDiv(a, b) == RMul(a, RInv(b))
RIsFinite(a) == a[2] # 0
\* C comparisons: every comparison with NaN is false
RLt(a, b) == a # NaN /\ b # NaN /\ a # b /\
             (IF a[2] = 0 \/ b[2] = 0
              THEN (a = <<-1, 0>> \/ b = <<1, 0>>)
              ELSE a[1] * b[2] < b[1] * a[2])
REq(a, b) == a # NaN /\ b # NaN /\ a = b
RLe(a, b) == RLt(a, b) \/ REq(a, b)

\* sum of f[0] + f[1] + ... + f[k-1]
RECURSIVE RSumTo(_, _)
RSumTo(f, k) == IF k = 0 THEN Zero ELSE RAdd(RSumTo(f, k - 1), f[k - 1])

\* pow(-1, k)
PowMinusOne(k) == IF k % 2 = 0 THEN One ELSE R(-1)

(***************************************************************************)
(* The matrix kernel (matrix.c).  A MATRIX is a record of n_rows, n_cols   *)
(* and matrix, a function from row index to (function from column index    *)
(* to a number); indices start at 0 as in the source.                      *)
(***************************************************************************)
matrix_initialize(n_rows, n_cols) ==
    [n_rows |-> n_rows, n_cols |-> n_cols,
     matrix |-> [i \in 0..(n_rows - 1) |-> [j \in 0..(n_cols - 1) |-> Zero]]]

\* matrix_resize zero-fills, after which the routine overwrites every element
matrix_resize(m, n_rows, n_cols) == matrix_initialize(n_rows, n_cols)

MkMatrix(n_rows, n_cols, Elem(_, _)) ==
    [n_rows |-> n_rows, n_cols |-> n_cols,
     matrix |-> [i \in 0..(n_rows - 1) |-> [j \in 0..(n_cols - 1) |-> Elem(i, j)]]]

Fatal == "fatal"     \* fatal_print: the process exits

matrix_add(m1, m2) ==
    IF m1.n_rows = m2.n_rows /\ m1.n_cols = m2.n_cols
    THEN LET e(i, j) == RAdd(m1.matrix[i][j], m2.matrix[i][j])
         IN  MkMatrix(m1.n_rows, m1.n_cols, e)
    ELSE Fatal

matrix_unary_minus(m) ==
    LET e(i, j) == RNeg(m.matrix[i][j]) IN MkMatrix(m.n_rows, m.n_cols, e)

matrix_subtract(m1, m2) == matrix_add(m1, matrix_unary_minus(m2))

matrix_multiply(m1, m2) ==
    IF m1.n_cols = m2.n_rows
    THEN LET e(i, j) ==
                 RSumTo([k \in 0..(m1.n_cols - 1) |->
                            RMul(m1.matrix[i][k], m2.matrix[k][j])], m1.n_cols)
         IN  MkMatrix(m1.n_rows, m2.n_cols, e)
    ELSE Fatal

matrix_transpose(m) ==
    LET e(j, i) == m.matrix[i][j] IN MkMatrix(m.n_cols, m.n_rows, e)

\* the minor of m omitting row axis0 and column axis1
matrix_minor(m, axis0, axis1) ==
    LET e(n1, n2) == m.matrix[IF n1 < axis0 THEN n1 ELSE n1 + 1]
                             [IF n2 < axis1 THEN n2 ELSE n2 + 1]
    IN  MkMatrix(m.n_rows - 1, m.n_cols - 1, e)

matrix_zeros_along_axis(m, index, along_row) ==
    IF along_row
    THEN Cardinality({j \in 0..(m.n_cols - 1) : m.matrix[index][j] = Zero})
    ELSE Cardinality({i \in 0..(m.n_rows - 1) : m.matrix[i][index] = Zero})

\* the largest element of a nonempty set of naturals
SetMax(S) == CHOOSE x \in S : \A y \in S : y <= x

\* current_max is the zero count of row 0 and is never updated in the loops:
\* the last row, then the last column, that beats row 0 wins.
matrix_determinant_ideal_axis(m) ==
    LET current_max == matrix_zeros_along_axis(m, 0, TRUE)
        rows == {i \in 1..(m.n_rows - 1) :
                    matrix_zeros_along_axis(m, i, TRUE) > current_max}
        cols == {j \in 0..(m.n_cols - 1) :
                    matrix_zeros_along_axis(m, j, FALSE) > current_max}
    IN  IF cols # {} THEN [index |-> SetMax(cols), along_row |-> FALSE]
        ELSE IF rows # {} THEN [index |-> SetMax(rows), along_row |-> TRUE]
        ELSE [index |-> 0, along_row |-> TRUE]

\* a faulty expansion whose sign leaves out the index of the axis: (-1)^j
\* along a row and (-1)^i along a column
RECURSIVE matrix_determinant_sign_of_position(_)
matrix_determinant_sign_of_position(m) ==
    IF m.n_rows # m.n_cols THEN Fatal
    ELSE IF m.n_rows = 1 THEN m.matrix[0][0]
    ELSE IF m.n_rows = 2
    THEN RAdd(RMul(m.matrix[0][0], m.matrix[1][1]),
              RNeg(RMul(m.matrix[0][1], m.matrix[1][0])))
    ELSE LET ideal_axis == matrix_determinant_ideal_axis(m)
             x == ideal_axis.index
             term(i, j, k) ==
                 IF m.matrix[i][j] # Zero
                 THEN RMul(RMul(m.matrix[i][j], PowMinusOne(k)),
                           matrix_determinant_sign_of_position(
                               matrix_minor(m, i, j)))
                 ELSE Zero
         IN  IF ideal_axis.along_row
             THEN RSumTo([j \in 0..(m.n_cols - 1) |-> term(x, j, j)], m.n_cols)
             ELSE RSumTo([i \in 0..(m.n_rows - 1) |-> term(i, x, i)], m.n_rows)

\* matrix_determinant: expansion by minors along the ideal axis, skipping
\* zero entries.  A 0x0 matrix takes the recursive branch with empty loops
\* and yields 0.
RECURSIVE matrix_determinant(_)
matrix_determinant(m) ==
    IF m.n_rows # m.n_cols THEN Fatal
    ELSE IF m.n_rows = 1 THEN m.matrix[0][0]
    ELSE IF m.n_rows = 2
    THEN RAdd(RMul(m.matrix[0][0], m.matrix[1][1]),
              RNeg(RMul(m.matrix[0][1], m.matrix[1][0])))
    ELSE LET ideal_axis == matrix_determinant_ideal_axis(m)
             x == ideal_axis.index
             term(i, j) ==
                 IF m.matrix[i][j] # Zero
                 THEN RMul(RMul(m.matrix[i][j], PowMinusOne(i + j)),
                           matrix_determinant(matrix_minor(m, i, j)))
                 ELSE Zero
         IN  IF ideal_axis.along_row
             THEN RSumTo([j \in 0..(m.n_cols - 1) |-> term(x, j)], m.n_cols)
             ELSE RSumTo([i \in 0..(m.n_rows - 1) |-> term(i, x)], m.n_rows)

\* matrix_determinant of matrix.c: expansion by minors along the first row,
\* zero entries included.  A 0x0 matrix yields 0 here as well.
RECURSIVE matrix_determinant_first_row(_)
matrix_determinant_first_row(m) ==
    IF m.n_rows # m.n_cols THEN Fatal
    ELSE IF m.n_rows = 1 THEN m.matrix[0][0]
    ELSE IF m.n_rows = 2
    THEN RAdd(RMul(m.matrix[0][0], m.matrix[1][1]),
              RNeg(RMul(m.matrix[0][1], m.matrix[1][0])))
    ELSE RSumTo([i \in 0..(m.n_cols - 1) |->
                    RMul(RMul(PowMinusOne(i), m.matrix[0][i]),
                         matrix_determinant_first_row(matrix_minor(m, 0, i)))],
                m.n_cols)

matrix_cofactors(m) ==
    IF m.n_rows = m.n_cols
    THEN LET e(i, j) == RMul(PowMinusOne(i + j),
                             matrix_determinant(matrix_minor(m, i, j)))
         IN  MkMatrix(m.n_rows, m.n_cols, e)
    ELSE Fatal

matrix_adjoint(m) == matrix_transpose(matrix_cofactors(m))

\* matrix_invert(m, result): writes the inverse into result and returns it,
\* or returns NULL and leaves result untouched when det(m) == 0.
matrix_invert(m, result) ==
    LET det == matrix_determinant(m)
    IN  IF det # Zero
        THEN LET adj == matrix_adjoint(m)
                 e(i, j) == RDiv(adj.matrix[i][j], det)
             IN  [ret |-> "result", result |-> MkMatrix(m.n_rows, m.n_cols, e)]
        ELSE [ret |-> "NULL", result |-> result]

Identity(n) ==
    LET e(i, j) == IF i = j THEN One ELSE Zero IN MkMatrix(n, n, e)

\* the textbook determinant (Leibniz expansion along the first row, with
\* det of the empty matrix 1), used only to say what the kernel should compute
RECURSIVE MathDet(_)
MathDet(m) ==
    IF m.n_rows = 0 THEN One
    ELSE RSumTo([j \in 0..(m.n_cols - 1) |->
                    RMul(RMul(m.matrix[0][j], PowMinusOne(j)),
                         MathDet(matrix_minor(m, 0, j)))], m.n_cols)

(***************************************************************************)
(* trackstar.matrix objects (matrix.pyx).                                  *)
(***************************************************************************)
EntryValues == (-1)..MaxEntry
Positions(r, c) == (0..(r - 1)) \X (0..(c - 1))

\* the r x c matrices with entries in EntryValues, at most MaxNonzero nonzero
MatInputs(r, c) ==
    UNION {{LET e(i, j) == IF <<i, j>> \in S THEN R(f[<<i, j>>]) ELSE Zero
            IN  MkMatrix(r, c, e) :
                f \in [S -> EntryValues \ {0}]} :
           S \in {T \in SUBSET Positions(r, c) : Cardinality(T) <= MaxNonzero}}

Shapes == {<<n, n>> : n \in 1..MaxDim} \cup {<<1, 2>>, <<2, 1>>}

NoOp == [op |-> "none"]
NoDatum == [none |-> TRUE]
NoMatrix == [none |-> TRUE]

CovIdle == dat = NoDatum /\ cop = NoOp /\ nwrites = 0

SmpIdle == heap = <<>> /\ samples = <<>> /\ sop = NoOp
NoTrack == [none |-> TRUE]
NoIntegral == [none |-> TRUE]
QuadIdle == intgrl = NoIntegral /\ quad_call = NoOp
LikIdle ==
    /\ ltrack = NoTrack /\ ldata = <<>> /\ lik = NoOp /\ thr = <<>>
    /\ by_thread = <<>> /\ CALLING_FUNCTION = 0 /\ ghost = NoOp

InitMat ==
    /\ \E s \in Shapes : mat \in MatInputs(s[1], s[2])
    /\ mop = NoOp
    /\ CovIdle /\ SmpIdle /\ LikIdle /\ QuadIdle

\* matrix.invert()
MatInvert ==
    /\ mop' = IF mat.n_rows = mat.n_cols
              THEN [op |-> "invert", raised |-> "none",
                    value |-> matrix_invert(mat,
                        matrix_initialize(mat.n_rows, mat.n_cols)).result]
              ELSE [op |-> "invert", raised |-> "ValueError"]
    /\ UNCHANGED <<mat, covVars, smpVars, likVars, quadVars>>

\* matrix.determinant()
MatDeterminant ==
    /\ mop' = IF mat.n_rows = mat.n_cols
              THEN [op |-> "determinant", raised |-> "none",
                    value |-> matrix_determinant(mat)]
              ELSE [op |-> "determinant", raised |-> "ValueError"]
    /\ UNCHANGED <<mat, covVars, smpVars, likVars, quadVars>>

NextMat == MatInvert \/ MatDeterminant

SpecMat == InitMat /\ [][NextMat]_vars

(***************************************************************************)
(* Datum construction (datum.pyx) and covariance_matrix assignment         *)
(* (covariance_matrix.pyx).                                                *)
(*                                                                         *)
(* A dictionary key "x", "x_err" or "err_x" is modelled as a record of its *)
(* base label and its kind (qty, sfx, pfx); a mapping is the sequence of   *)
(* its keys in insertion order and a function from keys to numbers.        *)
(***************************************************************************)
LabelPool == <<"x", "y", "z", "u", "v">>
Key(base, kind) == [base |-> base, kind |-> kind]
err_tag(k) == k.kind # "qty"
SelectKeys(keys, Test(_)) == SelectSeq(keys, Test)
KeyIn(k, keys) == \E i \in 1..Len(keys) : keys[i] = k

\* covariance_matrix.identity(size): matrix.identity builds the array,
\* __cinit__ allocates a zeroed inv, __init__ fills the entries and inverts
covariance_matrix_identity(size) ==
    LET id == Identity(size)
    IN  [matrix |-> id,
         inv |-> matrix_invert(id, matrix_initialize(size, size)).result]

\* datum.__cinit__ followed by datum.__init__
datum_init(mapping) ==
    LET keys == mapping.keys
        errs == SelectKeys(keys, err_tag)
        NotErr(k) == ~err_tag(k)
        qtys == SelectKeys(keys, NotErr)
        n == Len(qtys)
        identity == covariance_matrix_identity(n)
        diag(i) ==
            LET q == qtys[i + 1].base
            IN  IF KeyIn(Key(q, "sfx"), keys)
                THEN RMul(mapping.val[Key(q, "sfx")], mapping.val[Key(q, "sfx")])
                ELSE IF KeyIn(Key(q, "pfx"), keys)
                THEN RMul(mapping.val[Key(q, "pfx")], mapping.val[Key(q, "pfx")])
                ELSE identity.matrix.matrix[i][i]
        e(i, j) == IF i = j THEN diag(i) ELSE identity.matrix.matrix[i][j]
    IN  IF \E i \in 1..Len(errs) : ~KeyIn(Key(errs[i].base, "qty"), keys)
        THEN [raised |-> "ValueError"]
        ELSE [raised |-> "none",
              datum |-> [n_cols |-> n,
                         labels |-> [i \in 0..(n - 1) |-> qtys[i + 1].base],
                         vector |-> [i \in 0..(n - 1) |-> mapping.val[qtys[i + 1]]],
                         shadow_keys |-> {},
                         cov |-> MkMatrix(n, n, e),
                         inv |-> identity.inv]]

\* a value too small for a fraction of machine integers is written
\* <<n, -k>>, standing for n * 10^-k with n in 1..9; it is only ever compared
Tiny == <<1, -13>>

\* a faulty threshold test that lets every value through
any_value_accepted(v) == TRUE

\* value > 1e-12 for a fraction n/d (1e12 written as 1e6 * 1e6)
GtCovMin(v) ==
    IF v[2] < 0
    THEN v[1] > 0 /\ (-v[2] < 12 \/ (-v[2] = 12 /\ v[1] > 1))
    ELSE v[1] > 0 /\ (v[2] = 0 \/ ((v[2] \div v[1]) \div 1000000) < 1000000)

\* a faulty assignment that writes (i, j) only
cov_setitem_one_sided(d, i, j, value) ==
    IF ~(i \in 0..(d.n_cols - 1) /\ j \in 0..(d.n_cols - 1))
    THEN [raised |-> "IndexError", datum |-> d]
    ELSE LET e(a, b) == IF <<a, b>> = <<i, j>>
                        THEN value ELSE d.cov.matrix[a][b]
             newcov == MkMatrix(d.n_cols, d.n_cols, e)
         IN  [raised |-> "none",
              datum |-> [d EXCEPT !.cov = newcov,
                                  !.inv = matrix_invert(newcov, d.inv).result]]

\* covariance_matrix.__setitem__ with indices (i, j) already resolved
cov_setitem(d, i, j, value) ==
    IF ~(i \in 0..(d.n_cols - 1) /\ j \in 0..(d.n_cols - 1))
    THEN [raised |-> "IndexError", datum |-> d]
    ELSE IF i = j /\ ~RLt(Zero, value)
    THEN [raised |-> "ValueError", datum |-> d]
    ELSE IF i = j /\ ~GtCovMin(value)
    THEN [raised |-> "ValueError", datum |-> d]
    ELSE LET e(a, b) == IF <<a, b>> \in {<<i, j>>, <<j, i>>}
                        THEN value ELSE d.cov.matrix[a][b]
             newcov == MkMatrix(d.n_cols, d.n_cols, e)
         IN  [raised |-> "none",
              datum |-> [d EXCEPT !.cov = newcov,
                                  !.inv = matrix_invert(newcov, d.inv).result]]

\* the input mappings explored: the first n labels of the pool, each with a
\* value and none, one or both of its uncertainty keys; optionally one
\* uncertainty key whose base quantity is missing
ErrOptions ==
    {<<>>} \cup {<<<<"sfx", v>>>> : v \in 0..MaxEntry}
           \cup {<<<<"pfx", v>>>> : v \in 0..MaxEntry}
           \cup {<<<<"sfx", v>>, <<"pfx", v + 1>>>> : v \in 1..MaxEntry}

RECURSIVE KeysOf(_, _, _)
KeysOf(opts, n, orphan) ==
    IF n = 0 THEN (IF orphan THEN <<Key("w", "sfx")>> ELSE <<>>)
    ELSE KeysOf(opts, n - 1, orphan)
         \o <<Key(LabelPool[n], "qty")>>
         \o [k \in 1..Len(opts[n]) |-> Key(LabelPool[n], opts[n][k][1])]

MappingOf(opts, n, orphan) ==
    [keys |-> KeysOf(opts, n, orphan),
     val |-> [k \in {Key(LabelPool[i], kd) : i \in 1..n, kd \in {"qty", "sfx", "pfx"}}
                     \cup {Key("w", "sfx")} |->
                 IF k.kind = "qty" THEN R(CHOOSE i \in 1..n : LabelPool[i] = k.base)
                 ELSE IF k.base = "w" THEN One
                 ELSE LET o == opts[CHOOSE i \in 1..n : LabelPool[i] = k.base]
                      IN  IF \E x \in 1..Len(o) : o[x][1] = k.kind
                          THEN R(o[CHOOSE x \in 1..Len(o) : o[x][1] = k.kind][2])
                          ELSE Zero]]

DatumInputs ==
    UNION {{MappingOf(opts, n, orphan) :
                opts \in [1..n -> ErrOptions], orphan \in BOOLEAN} :
           n \in 1..MaxDatumDim}

MatIdle == mat = NoMatrix /\ mop = NoOp

InitCov == MatIdle /\ CovIdle /\ SmpIdle /\ LikIdle /\ QuadIdle

\* d = datum(mapping)
DatumInit ==
    /\ dat = NoDatum
    /\ cop.op = "none"
    /\ \E mapping \in DatumInputs :
          LET r == datum_init(mapping)
          IN  /\ dat' = IF r.raised = "none" THEN r.datum ELSE NoDatum
              /\ cop' = [op |-> "init", raised |-> r.raised, mapping |-> mapping]
    /\ UNCHANGED <<nwrites, matVars, smpVars, likVars, quadVars>>

\* d.cov[i, j] = value
CovSetItem ==
    /\ dat # NoDatum
    /\ nwrites < MaxWrites
    /\ \E i \in 0..dat.n_cols, j \in 0..(dat.n_cols - 1) :
          \E value \in {R(v) : v \in EntryValues}
                          \cup (IF i = j THEN {Tiny} ELSE {}) :
              LET r == cov_setitem(dat, i, j, value)
              IN  /\ dat' = r.datum
                  /\ cop' = [op |-> "setitem", raised |-> r.raised, i |-> i,
                             j |-> j, value |-> value, before |-> dat]
    /\ nwrites' = nwrites + 1
    /\ UNCHANGED <<matVars, smpVars, likVars, quadVars>>

NextCov == DatumInit \/ CovSetItem

SpecCov == InitCov /\ [][NextCov]_vars

(***************************************************************************)
(* Samples (sample.pyx, sample.c).  The datum objects live in heap; a      *)
(* sample holds references to them, so a sample derived from another one   *)
(* shares its datum objects.                                               *)
(***************************************************************************)
\* strindex(strlist, test, strlistlength): first index holding test, or -1
strindex(strlist, test, strlistlength) ==
    IF \E i \in 0..(strlistlength - 1) : strlist[i] = test
    THEN CHOOSE i \in 0..(strlistlength - 1) :
             strlist[i] = test /\ \A k \in 0..(i - 1) : strlist[k] # test
    ELSE -1

\* datum.keys()
datum_keys(d) == {d.labels[i] : i \in 0..(d.n_cols - 1)}

\* sample.keys(): the union of the labels of its data
sample_keys(hp, smp) == UNION {datum_keys(hp[smp[k]]) : k \in 1..Len(smp)}

\* sample.add_datum(measurement): append, then give every datum of the sample
\* the sample's keys it neither has nor shadows yet
add_datum(st, s, id) ==
    LET smp == Append(st.samples[s], id)
        keys == sample_keys(st.heap, smp)
        members == {smp[k] : k \in 1..Len(smp)}
    IN  [heap |-> [i \in 1..Len(st.heap) |->
                      IF i \in members
                      THEN [st.heap[i] EXCEPT !.shadow_keys =
                               @ \cup (keys \ datum_keys(st.heap[i]))]
                      ELSE st.heap[i]],
         samples |-> [st.samples EXCEPT ![s] = smp]]

\* the filter conditions by indicator: 1 ==, 2 <, 3 <=, 4 >, 5 >=
Conditions == 1..5
Compare(condition_indicator, a, b) ==
    CASE condition_indicator = 1 -> REq(a, b)
      [] condition_indicator = 2 -> RLt(a, b)
      [] condition_indicator = 3 -> RLe(a, b)
      [] condition_indicator = 4 -> RLt(b, a)
      [] condition_indicator = 5 -> RLe(b, a)

\* sample_filter_indices: indices[0] is the number of data that pass, followed
\* by their positions in s.data (positions start at 0)
RECURSIVE sample_filter_indices(_, _, _, _, _, _, _)
sample_filter_indices(hp, smp, n, label, condition_indicator, value, keep) ==
    IF n = 0 THEN <<0>>
    ELSE LET indices == sample_filter_indices(hp, smp, n - 1, label,
                                              condition_indicator, value, keep)
             d == hp[smp[n]]
             colidx == strindex(d.labels, label, d.n_cols)
             pass == IF colidx = -1 THEN keep
                     ELSE Compare(condition_indicator, d.vector[colidx], value)
         IN  IF pass
             THEN [k \in 1..(Len(indices) + 1) |->
                      IF k = 1 THEN indices[1] + 1
                      ELSE IF k <= Len(indices) THEN indices[k] ELSE n - 1]
             ELSE indices

\* sub = sample(); for i in range(1, indices[0]): sub.add_datum(...)
RECURSIVE filter_fill(_, _, _, _, _)
filter_fill(st, src, sub, indices, i) ==
    IF i < 1 THEN st
    ELSE add_datum(filter_fill(st, src, sub, indices, i - 1), sub,
                   st.samples[src][indices[i + 1] + 1])

sample_filter(st, src, label, condition_indicator, value, keep) ==
    LET indices == sample_filter_indices(st.heap, st.samples[src],
                       Len(st.samples[src]), label, condition_indicator,
                       value, keep)
        sub == Len(st.samples) + 1
        st0 == [heap |-> st.heap, samples |-> Append(st.samples, <<>>)]
    IN  filter_fill(st0, src, sub, indices, indices[1] - 1)

\* the mappings data are built from: one or two labels, no uncertainties
SampleLabelSeqs == {<<"x">>, <<"y">>, <<"x", "y">>}
SampleMappings ==
    UNION {{[keys |-> [k \in 1..Len(ls) |-> Key(ls[k], "qty")],
             val |-> [k \in {Key(ls[i], "qty") : i \in 1..Len(ls)} |->
                         R(f[k.base])]] :
               f \in [{ls[i] : i \in 1..Len(ls)} -> 0..MaxValue]} :
           ls \in SampleLabelSeqs}

State == [heap |-> heap, samples |-> samples]

InitSmp ==
    /\ heap = <<>>
    /\ samples = << <<>> >>
    /\ sop = NoOp
    /\ MatIdle /\ CovIdle /\ LikIdle /\ QuadIdle

\* s.add_datum(datum(mapping))
SampleAddNew ==
    /\ Len(heap) < MaxData
    /\ \E s \in 1..Len(samples), mapping \in SampleMappings :
          LET id == Len(heap) + 1
              st == add_datum([heap |-> Append(heap, datum_init(mapping).datum),
                               samples |-> samples], s, id)
          IN  /\ heap' = st.heap
              /\ samples' = st.samples
              /\ sop' = [op |-> "add_datum", raised |-> "none"]
    /\ UNCHANGED <<matVars, covVars, likVars, quadVars>>

\* s.add_datum(d) for a datum d that some sample already holds
SampleAddExisting ==
    /\ \E s \in 1..Len(samples), id \in 1..Len(heap) :
          /\ Len(samples[s]) < MaxData
          /\ LET st == add_datum(State, s, id)
             IN  /\ heap' = st.heap
                 /\ samples' = st.samples
                 /\ sop' = [op |-> "add_datum", raised |-> "none"]
    /\ UNCHANGED <<matVars, covVars, likVars, quadVars>>

\* sub = s.filter(label, condition, value, keep_missing_measurements)
SampleFilter ==
    /\ Len(samples) < MaxSamples
    /\ \E s \in 1..Len(samples), label \in {"x", "y"}, c \in Conditions,
          v \in 0..MaxValue, keep \in BOOLEAN :
          LET st == sample_filter(State, s, label, c, R(v), keep)
          IN  /\ heap' = st.heap
              /\ samples' = st.samples
              /\ sop' = [op |-> "filter", raised |-> "none", src |-> s,
                         sub |-> Len(samples) + 1, label |-> label,
                         condition |-> c, value |-> R(v), keep |-> keep]
    /\ UNCHANGED <<matVars, covVars, likVars, quadVars>>

\* s[start:stop]: linked_list has no _indexing_handle_slice_, the lookup raises
SampleSlice ==
    /\ \E s \in 1..Len(samples) :
          sop' = [op |-> "slice", raised |-> "AttributeError", src |-> s]
    /\ UNCHANGED <<heap, samples, matVars, covVars, likVars, quadVars>>

NextSmp == SampleAddNew \/ SampleAddExisting \/ SampleFilter \/ SampleSlice

SpecSmp == InitSmp /\ [][NextSmp]_vars

(***************************************************************************)
(* The likelihood of a sample (likelihood.c, sample.pyx).  loglikelihood_  *)
(* sample runs its loop over the data in an OpenMP team of n_threads       *)
(* threads; every iteration calls loglikelihood_datum on the shared track. *)
(* A thread's reads and writes of the track weights are single steps, so   *)
(* the steps of different threads interleave at that grain.  exp, sqrt and *)
(* log are left uninterpreted: the likelihood of a datum is the term made  *)
(* of the datum and of the weights track_subset copied for it.             *)
(***************************************************************************)
TrackLabels == {"x", "y"}
LikDatumLabels == {{"x", "y"}, {"x", "z"}}

\* a faulty sum that stops one element short
sum_without_last(arr, length) == RSumTo(arr, length - 1)

\* sum(arr, length)
sum(arr, length) == RSumTo(arr, length)

\* a faulty norm: the plain sum, with which the weights would add up to 1
weight_norm_plain_sum(total, n_vectors) == total

\* weight_norm = sum(weights) * 1000.f / n_vectors
weight_norm_of(total, n_vectors) == RMul(total, RDiv(R(1000), R(n_vectors)))

\* a faulty normalization that leaves the sum out of the norm
normalize_weights_without_sum(t) ==
    LET weight_norm == RDiv(R(1000), R(t.n_vectors))
    IN  [weight_norm |-> weight_norm,
         weights |-> [i \in 0..(t.n_vectors - 1) |->
                         RDiv(t.weights[i], weight_norm)]]

\* normalize_weights(t), run without interruption
normalize_weights(t) ==
    LET weight_norm == weight_norm_of(sum(t.weights, t.n_vectors), t.n_vectors)
    IN  [weight_norm |-> weight_norm,
         weights |-> [i \in 0..(t.n_vectors - 1) |->
                         RDiv(t.weights[i], weight_norm)]]

\* a faulty un-normalization that leaves the last weight as it is
unnormalize_weights_all_but_last(t, weight_norm) ==
    [i \in 0..(t.n_vectors - 1) |->
        IF i = t.n_vectors - 1 THEN t.weights[i]
        ELSE RMul(t.weights[i], weight_norm)]

\* unnormalize_weights(t, weight_norm), run without interruption
unnormalize_weights(t, weight_norm) ==
    [i \in 0..(t.n_vectors - 1) |-> RMul(t.weights[i], weight_norm)]

\* a faulty thread number: every thread of the team is told it is thread 0
thread_num_always_zero(tid) == 0

\* omp_get_thread_num() in the thread tid of the team
omp_get_thread_num(tid) == tid

\* a faulty accumulation: the slot is assigned (=) where the code adds (+=)
accumulate_by_assignment(slots, tid, term) ==
    [slots EXCEPT ![tid] = SetToBag({term})]

\* by_thread[omp_get_thread_num()] += loglikelihood_datum(*s.data[i], t)
accumulate(slots, tid, term) ==
    [slots EXCEPT ![omp_get_thread_num(tid)] = @ (+) SetToBag({term})]

\* the indices the loop of loglikelihood_sample runs over: i < s.n_vectors
LoopIndices(n_vectors) == 0..(n_vectors - 1)

\* logl += by_thread[i] for every slot
RECURSIVE SumSlots(_, _)
SumSlots(slots, n) ==
    IF n = 0 THEN EmptyBag ELSE SumSlots(slots, n - 1) (+) slots[n - 1]

IdleThread ==
    [pc |-> "idle", i |-> 0, k |-> 0, acc |-> Zero, weight_norm |-> One,
     reg |-> Zero, sub |-> <<>>]

Team == 0..(ltrack.n_threads - 1)

LikInit ==
    /\ \E n \in 1..MaxVertices, p \in 1..MaxThreads :
          \E w \in [0..(n - 1) -> 0..MaxWeight] :
              /\ ltrack = [n_vectors |-> n,
                           weights |-> [i \in 0..(n - 1) |-> R(w[i])],
                           n_threads |-> p,
                           normalize_weights |-> TRUE,
                           use_line_segment_corrections |-> FALSE]
              /\ ghost = [weights0 |-> [i \in 0..(n - 1) |-> R(w[i])],
                          normalize_calls |-> 0, unnormalize_calls |-> 0,
                          region_writes |-> 0,
                          evaluated |-> EmptyBag,
                          handled |-> [t \in 0..(p - 1) |-> {}],
                          slot_writers |-> [t \in 0..(p - 1) |-> {}]]
    /\ \E n \in 0..MaxSampleSize : ldata \in [1..n -> LikDatumLabels]
    /\ lik = [phase |-> "idle"]
    /\ thr = <<>>
    /\ by_thread = <<>>
    /\ CALLING_FUNCTION = 0
    /\ MatIdle /\ CovIdle /\ SmpIdle /\ QuadIdle

\* sample.loglikelihood(t, normalize_weights = ..., use_line_segment_
\* corrections = ...) up to the parallel loop of loglikelihood_sample
LikCall ==
    /\ lik.phase = "idle"
    /\ \E normalize \in BOOLEAN, corrections \in BOOLEAN :
          LET t == [ltrack EXCEPT !.normalize_weights = normalize,
                                  !.use_line_segment_corrections = corrections]
              self_keys == UNION {ldata[k] : k \in 1..Len(ldata)}
              norm == normalize_weights(t)
          IN  IF ~(self_keys \subseteq TrackLabels)
              THEN /\ ltrack' = t
                   /\ lik' = [phase |-> "done", raised |-> "ValueError"]
                   /\ UNCHANGED <<thr, by_thread, CALLING_FUNCTION, ghost>>
              ELSE /\ CALLING_FUNCTION' = 1
                   /\ ltrack' = IF normalize
                                THEN [t EXCEPT !.weights = norm.weights]
                                ELSE t
                   /\ lik' = [phase |-> "region", claimed |-> {},
                              weight_norm |-> IF normalize
                                              THEN norm.weight_norm ELSE One]
                   /\ by_thread' = [tid \in Team |-> EmptyBag]
                   /\ thr' = [tid \in Team |-> IdleThread]
                   /\ ghost' = [ghost EXCEPT !.normalize_calls =
                                    IF normalize THEN 1 ELSE 0]
    /\ UNCHANGED <<ldata, matVars, covVars, smpVars, quadVars>>

\* a thread of the team takes an iteration of the loop and enters
\* loglikelihood_datum
ThreadClaim(tid) ==
    /\ lik.phase = "region"
    /\ thr[tid].pc = "idle"
    /\ \E i \in LoopIndices(Len(ldata)) \ lik.claimed :
          LET normalizes == CALLING_FUNCTION # 0 /\ ltrack.normalize_weights
          IN  /\ lik' = [lik EXCEPT !.claimed = @ \cup {i}]
              /\ thr' = [thr EXCEPT ![tid] =
                            [IdleThread EXCEPT !.i = i,
                                !.pc = IF normalizes THEN "sum" ELSE "subset"]]
              /\ ghost' = [ghost EXCEPT !.handled[tid] = @ \cup {i},
                              !.normalize_calls =
                                  IF normalizes THEN @ + 1 ELSE @]
    /\ UNCHANGED <<ltrack, ldata, by_thread, CALLING_FUNCTION,
                   matVars, covVars, smpVars, quadVars>>

\* normalize_weights: sum reads one weight; after the last one
\* weight_norm *= 1000.f / n_vectors
ThreadSum(tid) ==
    /\ lik.phase = "region"
    /\ thr[tid].pc = "sum"
    /\ LET me == thr[tid]
           acc == RAdd(me.acc, ltrack.weights[me.k])
       IN  thr' = [thr EXCEPT ![tid] =
                      IF me.k + 1 < ltrack.n_vectors
                      THEN [me EXCEPT !.acc = acc, !.k = me.k + 1]
                      ELSE [me EXCEPT !.acc = acc, !.k = 0,
                               !.pc = "norm_load",
                               !.weight_norm =
                                   weight_norm_of(acc, ltrack.n_vectors)]]
    /\ UNCHANGED <<ltrack, ldata, lik, by_thread, CALLING_FUNCTION, ghost,
                   matVars, covVars, smpVars, quadVars>>

LikFrame == <<ldata, lik, by_thread, CALLING_FUNCTION, matVars, covVars, smpVars, quadVars>>

\* normalize_weights: t -> weights[k] /= weight_norm, the read
ThreadNormLoad(tid) ==
    /\ lik.phase = "region"
    /\ thr[tid].pc = "norm_load"
    /\ thr' = [thr EXCEPT ![tid].reg = ltrack.weights[thr[tid].k],
                          ![tid].pc = "norm_store"]
    /\ UNCHANGED <<ltrack, ghost, LikFrame>>

\* normalize_weights: t -> weights[k] /= weight_norm, the write
ThreadNormStore(tid) ==
    /\ lik.phase = "region"
    /\ thr[tid].pc = "norm_store"
    /\ LET me == thr[tid]
       IN  /\ ltrack' = [ltrack EXCEPT !.weights[me.k] =
                            RDiv(me.reg, me.weight_norm)]
           /\ thr' = [thr EXCEPT ![tid] =
                         IF me.k + 1 < ltrack.n_vectors
                         THEN [me EXCEPT !.k = me.k + 1, !.pc = "norm_load"]
                         ELSE [me EXCEPT !.k = 0, !.pc = "subset"]]
    /\ ghost' = [ghost EXCEPT !.region_writes = @ + 1]
    /\ UNCHANGED LikFrame

\* track_subset: sub -> weights[k] = t.weights[k]; the inner loop over the
\* vertices then works on the copy only
ThreadSubset(tid) ==
    /\ lik.phase = "region"
    /\ thr[tid].pc = "subset"
    /\ LET me == thr[tid]
           sub == [j \in 0..me.k |->
                      IF j = me.k THEN ltrack.weights[j] ELSE me.sub[j]]
           unnormalizes == CALLING_FUNCTION # 0 /\ ltrack.normalize_weights
       IN  /\ thr' = [thr EXCEPT ![tid] =
                         IF me.k + 1 < ltrack.n_vectors
                         THEN [me EXCEPT !.sub = sub, !.k = me.k + 1]
                         ELSE [me EXCEPT !.sub = sub, !.k = 0,
                                  !.pc = IF unnormalizes THEN "unnorm_load"
                                         ELSE "accumulate"]]
           /\ ghost' = [ghost EXCEPT !.unnormalize_calls =
                           IF me.k + 1 = ltrack.n_vectors /\ unnormalizes
                           THEN @ + 1 ELSE @]
    /\ UNCHANGED <<ltrack, LikFrame>>

\* unnormalize_weights: t -> weights[k] *= weight_norm, the read
ThreadUnnormLoad(tid) ==
    /\ lik.phase = "region"
    /\ thr[tid].pc = "unnorm_load"
    /\ thr' = [thr EXCEPT ![tid].reg = ltrack.weights[thr[tid].k],
                          ![tid].pc = "unnorm_store"]
    /\ UNCHANGED <<ltrack, ghost, LikFrame>>

\* unnormalize_weights: t -> weights[k] *= weight_norm, the write
ThreadUnnormStore(tid) ==
    /\ lik.phase = "region"
    /\ thr[tid].pc = "unnorm_store"
    /\ LET me == thr[tid]
       IN  /\ ltrack' = [ltrack EXCEPT !.weights[me.k] =
                            RMul(me.reg, me.weight_norm)]
           /\ thr' = [thr EXCEPT ![tid] =
                         IF me.k + 1 < ltrack.n_vectors
                         THEN [me EXCEPT !.k = me.k + 1, !.pc = "unnorm_load"]
                         ELSE [me EXCEPT !.k = 0, !.pc = "accumulate"]]
    /\ ghost' = [ghost EXCEPT !.region_writes = @ + 1]
    /\ UNCHANGED LikFrame

\* the term loglikelihood_datum returns for datum i with the weights copied
DatumTerm(i, sub) == [d |-> i, w |-> sub]

\* by_thread[omp_get_thread_num()] += loglikelihood_datum(*s.data[i], t)
ThreadAccumulate(tid) ==
    /\ lik.phase = "region"
    /\ thr[tid].pc = "accumulate"
    /\ by_thread' = accumulate(by_thread, tid,
                               DatumTerm(thr[tid].i, thr[tid].sub))
    /\ thr' = [thr EXCEPT ![tid] = IdleThread]
    /\ ghost' = [ghost EXCEPT
                    !.evaluated = @ (+) SetToBag({thr[tid].i}),
                    !.slot_writers[omp_get_thread_num(tid)] = @ \cup {tid}]
    /\ UNCHANGED <<ltrack, ldata, lik, CALLING_FUNCTION,
                   matVars, covVars, smpVars, quadVars>>

\* after the loop: the slots are added up, the weights un-normalized or
\* their sum subtracted, CALLING_FUNCTION reset, logl returned
LikReturn ==
    /\ lik.phase = "region"
    /\ lik.claimed = LoopIndices(Len(ldata))
    /\ \A tid \in Team : thr[tid].pc = "idle"
    /\ LET terms == SumSlots(by_thread, ltrack.n_threads)
       IN  IF ltrack.normalize_weights
           THEN /\ ltrack' = [ltrack EXCEPT !.weights =
                                 unnormalize_weights(ltrack, lik.weight_norm)]
                /\ lik' = [phase |-> "done", raised |-> "none",
                           logl |-> [terms |-> terms, offset |-> Zero]]
                /\ ghost' = [ghost EXCEPT !.unnormalize_calls = @ + 1]
           ELSE /\ lik' = [phase |-> "done", raised |-> "none",
                           logl |-> [terms |-> terms,
                                     offset |-> RNeg(sum(ltrack.weights,
                                                         ltrack.n_vectors))]]
                /\ UNCHANGED <<ltrack, ghost>>
    /\ CALLING_FUNCTION' = 0
    /\ UNCHANGED <<ldata, thr, by_thread, matVars, covVars, smpVars, quadVars>>

NextLik ==
    \/ LikCall
    \/ \E tid \in DOMAIN thr : ThreadClaim(tid)
    \/ \E tid \in DOMAIN thr : ThreadSum(tid)
    \/ \E tid \in DOMAIN thr : ThreadNormLoad(tid)
    \/ \E tid \in DOMAIN thr : ThreadNormStore(tid)
    \/ \E tid \in DOMAIN thr : ThreadSubset(tid)
    \/ \E tid \in DOMAIN thr : ThreadUnnormLoad(tid)
    \/ \E tid \in DOMAIN thr : ThreadUnnormStore(tid)
    \/ \E tid \in DOMAIN thr : ThreadAccumulate(tid)
    \/ LikReturn

SpecLik == LikInit /\ [][NextLik]_vars

(***************************************************************************)
(* The likelihood calls of the Python layer on a track left at its default *)
(* n_threads = 1 (sample.pyx, datum.pyx, track.pyx, likelihood.c).  With   *)
(* one thread the loop of loglikelihood_sample runs the data in order, so  *)
(* a call is one step.  A history of the previous evaluation is kept.      *)
(***************************************************************************)
\* track_subset: NULL when a label of the datum is not a label of the track,
\* else the copy, of which the weights are kept here
track_subset(labels, t) ==
    IF \E l \in labels : l \notin TrackLabels
    THEN [null |-> TRUE]
    ELSE [null |-> FALSE, weights |-> t.weights]

\* loglikelihood_datum(d, t) for the datum numbered i, with CALLING_FUNCTION
\* as it stands; exits the process (fatal_print) when track_subset fails
loglikelihood_datum(i, labels, t, calling_function) ==
    LET normalizes == calling_function # 0 /\ t.normalize_weights
        norm == normalize_weights(t)
        t1 == IF normalizes THEN [t EXCEPT !.weights = norm.weights] ELSE t
        sub == track_subset(labels, t1)
    IN  IF sub.null
        THEN [exited |-> TRUE, weights |-> t1.weights]
        ELSE [exited |-> FALSE,
              value |-> DatumTerm(i, sub.weights),
              weights |-> IF normalizes
                          THEN unnormalize_weights(t1, norm.weight_norm)
                          ELSE t1.weights]

\* the loop of loglikelihood_sample over the first n data, one thread
RECURSIVE sample_loop(_, _, _)
sample_loop(data, n, t) ==
    IF n = 0 THEN [exited |-> FALSE, terms |-> EmptyBag, weights |-> t.weights]
    ELSE LET before == sample_loop(data, n - 1, t)
             one == loglikelihood_datum(n - 1, data[n],
                        [t EXCEPT !.weights = before.weights], 1)
         IN  IF before.exited THEN before
             ELSE IF one.exited
             THEN [exited |-> TRUE, terms |-> before.terms,
                   weights |-> one.weights]
             ELSE [exited |-> FALSE,
                   terms |-> before.terms (+) SetToBag({one.value}),
                   weights |-> one.weights]

\* loglikelihood_sample(s, t) with n_threads = 1
loglikelihood_sample(data, t) ==
    LET norm == normalize_weights(t)
        t1 == IF t.normalize_weights
              THEN [t EXCEPT !.weights = norm.weights] ELSE t
        loop == sample_loop(data, Len(data), t1)
        t2 == [t1 EXCEPT !.weights = loop.weights]
    IN  IF loop.exited THEN [exited |-> TRUE, weights |-> loop.weights]
        ELSE IF t.normalize_weights
        THEN [exited |-> FALSE,
              logl |-> [terms |-> loop.terms, offset |-> Zero],
              weights |-> unnormalize_weights(t2, norm.weight_norm)]
        ELSE [exited |-> FALSE,
              logl |-> [terms |-> loop.terms,
                        offset |-> RNeg(sum(t2.weights, t2.n_vectors))],
              weights |-> t2.weights]

\* a wrapper that never looks at the keys
keys_never_checked(self_keys, track_keys) == TRUE

\* for key in self_keys: if key not in track_keys: raise ValueError
keys_covered(self_keys, track_keys) == self_keys \subseteq track_keys

EvalFrame == <<ldata, thr, by_thread, matVars, covVars, smpVars, quadVars>>

EvalInit ==
    /\ \E n \in 1..MaxVertices :
          ltrack = [n_vectors |-> n,
                    weights |-> [i \in 0..(n - 1) |-> One],
                    n_threads |-> 1,
                    normalize_weights |-> TRUE,
                    use_line_segment_corrections |-> FALSE]
    /\ \E n \in 0..MaxSampleSize : ldata \in [1..n -> LikDatumLabels]
    /\ lik = [phase |-> "idle"]
    /\ ghost = [prev |-> NoOp]
    /\ thr = <<>>
    /\ by_thread = <<>>
    /\ CALLING_FUNCTION = 0
    /\ MatIdle /\ CovIdle /\ SmpIdle /\ QuadIdle

\* whether the last call was a sample evaluation that returned a value with
\* normalize_weights set
NormalizedSampleValue ==
    /\ lik.phase = "done" /\ lik.op = "sample" /\ lik.raised = "none"
    /\ ltrack.normalize_weights

\* the history: the latest such evaluation before the call being made
ShiftHistory ==
    IF NormalizedSampleValue
    THEN [prev |-> [op |-> "sample", weights |-> lik.weights_in,
                    corrections |-> ltrack.use_line_segment_corrections,
                    logl |-> lik.logl]]
    ELSE ghost

\* s.loglikelihood(t, normalize_weights = ..., use_line_segment_corrections
\* = ...)
EvalSample ==
    /\ lik.phase # "aborted"
    /\ \E normalize \in BOOLEAN, corrections \in BOOLEAN :
          LET t == [ltrack EXCEPT !.normalize_weights = normalize,
                                  !.use_line_segment_corrections = corrections]
              self_keys == UNION {ldata[k] : k \in 1..Len(ldata)}
              r == loglikelihood_sample(ldata, t)
          IN  IF ~keys_covered(self_keys, TrackLabels)
              THEN /\ ltrack' = t
                   /\ lik' = [phase |-> "done", op |-> "sample",
                              raised |-> "ValueError"]
                   /\ UNCHANGED CALLING_FUNCTION
              ELSE IF r.exited
              THEN /\ ltrack' = [t EXCEPT !.weights = r.weights]
                   /\ lik' = [phase |-> "aborted", op |-> "sample"]
                   /\ CALLING_FUNCTION' = 1
              ELSE /\ ltrack' = [t EXCEPT !.weights = r.weights]
                   /\ lik' = [phase |-> "done", op |-> "sample",
                              raised |-> "none", logl |-> r.logl,
                              weights_in |-> ltrack.weights]
                   /\ CALLING_FUNCTION' = 0
    /\ ghost' = ShiftHistory
    /\ UNCHANGED EvalFrame

\* s[k].loglikelihood(t, normalize_weights = ..., use_line_segment_
\* corrections = ...)
EvalDatum ==
    /\ lik.phase # "aborted"
    /\ \E k \in 1..Len(ldata), normalize \in BOOLEAN, corrections \in BOOLEAN :
          LET t == [ltrack EXCEPT !.normalize_weights = normalize,
                                  !.use_line_segment_corrections = corrections]
              r == loglikelihood_datum(k - 1, ldata[k], t, CALLING_FUNCTION)
          IN  IF ~keys_covered(ldata[k], TrackLabels)
              THEN /\ ltrack' = t
                   /\ lik' = [phase |-> "done", op |-> "datum", k |-> k,
                              raised |-> "ValueError"]
              ELSE IF r.exited
              THEN /\ ltrack' = [t EXCEPT !.weights = r.weights]
                   /\ lik' = [phase |-> "aborted", op |-> "datum", k |-> k]
              ELSE /\ ltrack' = [t EXCEPT !.weights = r.weights]
                   /\ lik' = [phase |-> "done", op |-> "datum", k |-> k,
                              raised |-> "none",
                              logl |-> [terms |-> SetToBag({r.value}),
                                        offset |-> Zero],
                              weights_in |-> ltrack.weights]
    /\ ghost' = ShiftHistory
    /\ UNCHANGED <<CALLING_FUNCTION, EvalFrame>>

\* t["weights", row] = value
EvalSetWeight ==
    /\ lik.phase # "aborted"
    /\ \E number \in (-1)..ltrack.n_vectors, value \in 0..MaxAssignedWeight :
          LET row == IF -ltrack.n_vectors <= number /\ number < 0
                     THEN number + ltrack.n_vectors ELSE number
          IN  IF ~(0 <= row /\ row < ltrack.n_vectors)
              THEN /\ lik' = [phase |-> "done", op |-> "setitem",
                              raised |-> "IndexError"]
                   /\ UNCHANGED ltrack
              ELSE /\ lik' = [phase |-> "done", op |-> "setitem",
                              raised |-> "none"]
                   /\ ltrack' = [ltrack EXCEPT !.weights[row] = R(value)]
    /\ ghost' = ShiftHistory
    /\ UNCHANGED <<CALLING_FUNCTION, EvalFrame>>

NextEval == EvalSample \/ EvalDatum \/ EvalSetWeight

SpecEval == EvalInit /\ [][NextEval]_vars

(***************************************************************************)
(* The n_threads attribute of a track (track.pyx, multithread.h).  The     *)
(* machine's number of active CPUs and whether the build has OpenMP are    *)
(* fixed at the start.                                                     *)
(***************************************************************************)
MAX_THREADS_CPU_RATIO == 10

\* max_threads_allowed(), on a machine with cpu_count active CPUs
max_threads_allowed(cpu_count) == MAX_THREADS_CPU_RATIO * cpu_count

\* the values a caller assigns: integers, and one that is no integer
ThreadRequests == {R(v) : v \in (-1)..MaxThreadRequest} \cup {<<1, 2>>}

ThreadsInit ==
    /\ ltrack = [n_vectors |-> 1,
                 weights |-> [i \in 0..0 |-> One],
                 n_threads |-> 1,
                 normalize_weights |-> TRUE,
                 use_line_segment_corrections |-> FALSE]
    /\ \E c \in 1..MaxCpuCount, enabled \in BOOLEAN :
          ghost = [cpu_count |-> c, multithreading_enabled |-> enabled]
    /\ lik = [phase |-> "idle"]
    /\ ldata = <<>>
    /\ thr = <<>>
    /\ by_thread = <<>>
    /\ CALLING_FUNCTION = 0
    /\ MatIdle /\ CovIdle /\ SmpIdle /\ QuadIdle

\* t.n_threads = value
SetNThreads ==
    /\ \E value \in ThreadRequests :
          IF value[2] # 1   \* value % 1 != 0
          THEN /\ lik' = [phase |-> "done", op |-> "n_threads",
                          value |-> value, raised |-> "ValueError"]
               /\ UNCHANGED ltrack
          ELSE IF ~(value[1] > 0)
          THEN /\ lik' = [phase |-> "done", op |-> "n_threads",
                          value |-> value, raised |-> "ValueError"]
               /\ UNCHANGED ltrack
          ELSE IF value[1] = 1 \/ ghost.multithreading_enabled
          THEN /\ lik' = [phase |-> "done", op |-> "n_threads",
                          value |-> value, raised |-> "none"]
               /\ ltrack' = [ltrack EXCEPT !.n_threads = value[1]]
          ELSE /\ lik' = [phase |-> "done", op |-> "n_threads",
                          value |-> value, raised |-> "RuntimeError"]
               /\ UNCHANGED ltrack
    /\ UNCHANGED <<ghost, CALLING_FUNCTION, EvalFrame>>

NextThreads == SetNThreads

SpecThreads == ThreadsInit /\ [][NextThreads]_vars

(***************************************************************************)
(* Quadrature (quadrature.c).  The integrand is a monomial coef * x^power, *)
(* so that every Riemann sum is an exact fraction.  The bin counts are     *)
(* unsigned long in the source; the counts reached here stay far below     *)
(* 2^64, where n *= 2 would wrap.                                          *)
(***************************************************************************)
MaxPower == 4
MaxUpper == 1
MaxNMin == 3
MaxNMax == 9

\* the sums, products and quotients of doubles in quadrature.c.  The
\* operands are bound to their values first, so that a nested expression is
\* worked out once however often it is used.
QAdd(a0, b0) == CHOOSE r \in {RAdd(a, b) : a \in {a0}, b \in {b0}} : TRUE
QMul(a0, b0) == CHOOSE r \in {RMul(a, b) : a \in {a0}, b \in {b0}} : TRUE
QDiv(a, b) == QMul(a, RInv(b))

\* sum(arr, length)
RECURSIVE QSumTo(_, _)
QSumTo(f, k) == IF k = 0 THEN Zero ELSE QAdd(QSumTo(f, k - 1), f[k - 1])

RECURSIVE RPow(_, _)
RPow(x, k) == IF k = 0 THEN One ELSE QMul(x, RPow(x, k - 1))

\* (*func)(args), args[0] = x
func_of(f, x) == QMul(R(f.coef), RPow(x, f.power))

\* sign(x) = (x > 0) - (x < 0)
sign(x) == (IF RLt(Zero, x) THEN 1 ELSE 0) - (IF RLt(x, Zero) THEN 1 ELSE 0)

absval(x) == QMul(R(sign(x)), x)

\* bin_edges(start, stop, n_bins)[i]
bin_edges(start, stop, n_bins, i) ==
    LET dx == QDiv(QAdd(stop, RNeg(start)), R(n_bins))
    IN  QAdd(start, QMul(R(i), dx))

trapezoid_rule(f, lower, upper, n_bins) ==
    LET bin_width == QDiv(QAdd(upper, RNeg(lower)), R(n_bins))
        funcofx == [i \in 0..n_bins |->
                       func_of(f, bin_edges(lower, upper, n_bins, i))]
        total == QAdd(QSumTo(funcofx, n_bins + 1),
                      RNeg(QDiv(QAdd(funcofx[0], funcofx[n_bins]), R(2))))
    IN  QMul(bin_width, total)

simpsons_rule(f, lower, upper, n_bins) ==
    QDiv(QAdd(QMul(R(4), trapezoid_rule(f, lower, upper, n_bins)),
              RNeg(trapezoid_rule(f, lower, upper, n_bins \div 2))),
         R(3))

\* the do ... while loop of quad, entered with n bins and the previous
\* estimate old_int.  n_bins records the bin count handed to the last call
\* of simpsons_rule, the one whose value is returned as the result.
RECURSIVE quad_loop(_, _, _)
quad_loop(g, n, old_int) ==
    LET new_int == simpsons_rule(g.func, g.lower, g.upper, n)
        error == IF new_int # Zero
                 THEN absval(QAdd(QDiv(old_int, new_int), RNeg(One)))
                 ELSE One
        doubled == n * 2
    IN  IF RLt(g.tolerance, error) /\ doubled < g.n_max
        THEN quad_loop(g, doubled, new_int)
        ELSE [result |-> new_int, iters |-> doubled, error |-> error,
              n_bins |-> n,
              ret |-> IF RLt(g.tolerance, error) THEN 1 ELSE 0]

\* quad(&intgrl): the struct after the call, and what the call returned
quad(g) ==
    LET n == IF g.n_min % 2 = 1 THEN g.n_min + 1 ELSE g.n_min
    IN  quad_loop(g, n, Zero)

Integrands == [coef : 0..1, power : 0..MaxPower]
Tolerances == {Zero, <<1, 1000>>, One}

\* an INTEGRAL as its caller sets it up; iters, result and error are not
\* assigned before the call and hold whatever the memory held
QuadInit ==
    /\ \E f \in Integrands, up \in 1..MaxUpper, tol \in Tolerances,
          n_min \in 1..MaxNMin, n_max \in 1..MaxNMax, junk \in 0..1 :
          intgrl = [func |-> f, lower |-> Zero, upper |-> R(up),
                    tolerance |-> tol, n_min |-> n_min, n_max |-> n_max,
                    iters |-> junk, result |-> R(junk), error |-> R(junk)]
    /\ quad_call = NoOp
    /\ MatIdle /\ CovIdle /\ SmpIdle /\ LikIdle

\* quad(&intgrl)
Quad ==
    /\ quad_call = NoOp
    /\ LET q == quad(intgrl)
       IN  /\ intgrl' = [intgrl EXCEPT !.result = q.result,
                                       !.iters = q.iters,
                                       !.error = q.error]
           /\ quad_call' = [op |-> "quad", ret |-> q.ret, n_bins |-> q.n_bins]
    /\ UNCHANGED <<matVars, covVars, smpVars, likVars>>

NextQuad == Quad

SpecQuad == QuadInit /\ [][NextQuad]_vars

(***************************************************************************)
(* quad, one pass of its do ... while loop at a time.  quad_call holds the *)
(* locals of the call: n, old_int, new_int and the number of passes made.  *)
(***************************************************************************)
MaxPasses == 8

\* if (n % 2ul) n++;
first_count(n_min) == IF n_min % 2 = 1 THEN n_min + 1 ELSE n_min

keep_count(n) == n

\* n *= 2ul;
double_count(n) == n * 2

\* while ((*intgrl).error > (*intgrl).tolerance && n < (*intgrl).n_max)
loop_continues(g, n) == RLt(g.tolerance, g.error) /\ n < g.n_max

\* unsigned long n = (*intgrl).n_min; if (n % 2ul) n++; double old_int = 0
QuadEnter ==
    /\ quad_call = NoOp
    /\ quad_call' = [op |-> "quad_steps", pc |-> "loop",
                     n |-> first_count(intgrl.n_min),
                     old_int |-> Zero, new_int |-> Zero, passes |-> 0]
    /\ UNCHANGED <<intgrl, matVars, covVars, smpVars, likVars>>

\* one pass of the loop body, then the test of the loop condition
QuadPass ==
    /\ quad_call.op = "quad_steps" /\ quad_call.pc = "loop"
    /\ quad_call.passes < MaxPasses
    /\ \E new_int \in {simpsons_rule(intgrl.func, intgrl.lower, intgrl.upper,
                                     quad_call.n)} :
       \E error \in {IF new_int # Zero
                     THEN absval(QAdd(QDiv(quad_call.old_int, new_int),
                                      RNeg(One)))
                     ELSE One} :
          LET n == double_count(quad_call.n)
              g == [intgrl EXCEPT !.error = error]
          IN  /\ intgrl' = g
              /\ quad_call' = [quad_call EXCEPT
                     !.new_int = new_int, !.old_int = new_int, !.n = n,
                     !.passes = @ + 1,
                     !.pc = IF loop_continues(g, n) THEN "loop" ELSE "exit"]
    /\ UNCHANGED <<matVars, covVars, smpVars, likVars>>

\* intgrl -> result = new_int; intgrl -> iters = n; return error > tolerance
QuadExit ==
    /\ quad_call.op = "quad_steps" /\ quad_call.pc = "exit"
    /\ intgrl' = [intgrl EXCEPT !.result = quad_call.new_int,
                                !.iters = quad_call.n]
    /\ quad_call' = [quad_call EXCEPT !.pc = "returned"]
    /\ UNCHANGED <<matVars, covVars, smpVars, likVars>>

NextQuadSteps == QuadEnter \/ QuadPass \/ QuadExit

\* the call runs on one thread and every pass is a finite sum: a pass that
\* can be made is made
SpecQuadSteps == QuadInit /\ [][NextQuadSteps]_vars /\ WF_vars(NextQuadSteps)

(***************************************************************************)
(* Indexing and item assignment of a track (track.pyx, utils.pyx).  The    *)
(* track object is ltrack, with its labels, predictions and weights; lik   *)
(* records the last call and what it returned or raised.                   *)
(***************************************************************************)
MaxPrediction == 1
MaxTrackValue == 2

\* the label sequences of a track's columns
TrackLabelSeqs ==
    {[j \in 0..0 |-> l] : l \in {"x", "y"}} \cup
    {[j \in 0..1 |-> IF j = 0 THEN "x" ELSE "y"],
     [j \in 0..1 |-> IF j = 0 THEN "y" ELSE "x"]}

\* track.__init__: n_threads 1, no line segment corrections
TrkInit ==
    /\ \E n \in 1..MaxVertices, labels \in TrackLabelSeqs :
          \E predictions \in [0..(n - 1) ->
                                 [DOMAIN labels -> {R(v) : v \in 0..MaxPrediction}]],
             weights \in [0..(n - 1) -> {R(v) : v \in 0..MaxWeight}] :
             ltrack = [n_vectors |-> n,
                       dim |-> Cardinality(DOMAIN labels),
                       labels |-> labels,
                       predictions |-> predictions,
                       weights |-> weights,
                       n_threads |-> 1,
                       normalize_weights |-> TRUE,
                       use_line_segment_corrections |-> FALSE]
    /\ lik = NoOp
    /\ ldata = <<>>
    /\ thr = <<>>
    /\ by_thread = <<>>
    /\ CALLING_FUNCTION = 0
    /\ ghost = NoOp
    /\ MatIdle /\ CovIdle /\ SmpIdle /\ QuadIdle

TrkFrame == <<ldata, thr, by_thread, CALLING_FUNCTION, ghost,
              matVars, covVars, smpVars, quadVars>>

\* _indexing_handle_number_, for an integer: the row, or -1 for IndexError
indexing_handle_number(t, number) ==
    LET row == IF -t.n_vectors <= number /\ number < 0
               THEN number + t.n_vectors ELSE number
    IN  IF 0 <= row /\ row < t.n_vectors THEN row ELSE -1

\* _indexing_handle_str_: -2 for "weights", the column, or -1 for KeyError
indexing_handle_str(t, label) ==
    IF label = "weights" THEN -2 ELSE strindex(t.labels, label, t.dim)

\* the n_elements argument that _getitem_number_ hands to linked_dict
getitem_n_elements(t) == t.dim

\* _getitem_number_: the linked_dict over row, its arrays dim + 1 long.  An
\* element of arr is the address of the track's double it is linked to.
getitem_number(t, row) ==
    [arr |-> [i \in 0..t.dim |->
                 IF i < t.dim THEN [field |-> "predictions", row |-> row, col |-> i]
                 ELSE [field |-> "weights", row |-> row, col |-> 0]],
     keys |-> [i \in 0..t.dim |-> IF i < t.dim THEN t.labels[i] ELSE "weights"],
     n_elements |-> getitem_n_elements(t)]

\* self._arr[idx][0]
deref(t, address) ==
    IF address.field = "weights" THEN t.weights[address.row]
    ELSE t.predictions[address.row][address.col]

\* linked_dict.keys()
linked_dict_keys(ld) == {ld.keys[i] : i \in 0..(ld.n_elements - 1)}

\* linked_dict.__getitem__(key), for a string
linked_dict_getitem(t, ld, key) ==
    LET idx == strindex(ld.keys, key, ld.n_elements)
    IN  IF idx # -1 THEN [raised |-> "none", value |-> deref(t, ld.arr[idx])]
        ELSE [raised |-> "KeyError"]

\* t[number]
TrackGetItemNumber ==
    /\ \E number \in (-(MaxVertices + 1))..MaxVertices :
          LET row == indexing_handle_number(ltrack, number)
          IN  lik' = IF row = -1
                     THEN [op |-> "getitem_number", raised |-> "IndexError"]
                     ELSE [op |-> "getitem_number", raised |-> "none",
                           row |-> row, item |-> getitem_number(ltrack, row)]
    /\ UNCHANGED <<ltrack, TrkFrame>>

\* the sequences a caller assigns to a column: of the track's length or not
AssignedColumns ==
    UNION {[0..(n - 1) -> {R(v) : v \in 0..MaxTrackValue}] :
           n \in 1..MaxVertices}

\* the loop of _setitem_str_ with the column index in hand.  An index of -1
\* addresses predictions[i][-1], the double in front of row i's allocation:
\* no element of the track is written.
setitem_column(t, colidx, value) ==
    IF colidx = -2
    THEN [t EXCEPT !.weights = [i \in 0..(t.n_vectors - 1) |-> value[i]]]
    ELSE IF colidx >= 0
    THEN [t EXCEPT !.predictions =
             [i \in 0..(t.n_vectors - 1) |->
                 [t.predictions[i] EXCEPT ![colidx] = value[i]]]]
    ELSE t

\* t[label] = value.  After the checks the column index is looked up again
\* with strindex, which knows no "weights" and answers -1 for it; the writes
\* in front of the rows are out of bounds, and the call returns or the
\* process dies of the damaged heap.
TrackSetItemStr ==
    /\ \E label \in {"x", "y", "z", "weights"}, value \in AssignedColumns :
          LET len == Cardinality(DOMAIN value)
              call == [op |-> "setitem_str", label |-> label, value |-> value]
          IN  IF indexing_handle_str(ltrack, label) = -1
              THEN /\ lik' = call @@ [raised |-> "KeyError"]
                   /\ UNCHANGED ltrack
              ELSE IF len # ltrack.n_vectors
              THEN /\ lik' = call @@ [raised |-> "ValueError"]
                   /\ UNCHANGED ltrack
              ELSE LET colidx == strindex(ltrack.labels, label, ltrack.dim)
                   IN  /\ ltrack' = setitem_column(ltrack, colidx, value)
                       /\ IF colidx = -1
                          THEN \E outcome \in {"none", "crash"} :
                                  lik' = call @@ [raised |-> outcome]
                          ELSE lik' = call @@ [raised |-> "none"]
    /\ UNCHANGED TrkFrame

\* t[label, number] = value
TrackSetItemTuple ==
    /\ \E label \in {"x", "y", "weights"}, number \in (-1)..MaxVertices,
          value \in {R(v) : v \in 0..MaxTrackValue} :
          LET call == [op |-> "setitem_tuple", label |-> label,
                       number |-> number, value |-> value]
              colidx == indexing_handle_str(ltrack, label)
              row == indexing_handle_number(ltrack, number)
          IN  IF colidx = -1
              THEN /\ lik' = call @@ [raised |-> "KeyError"]
                   /\ UNCHANGED ltrack
              ELSE IF row = -1
              THEN /\ lik' = call @@ [raised |-> "IndexError"]
                   /\ UNCHANGED ltrack
              ELSE /\ lik' = call @@ [raised |-> "none"]
                   /\ ltrack' = IF colidx = -2
                                THEN [ltrack EXCEPT !.weights[row] = value]
                                ELSE [ltrack EXCEPT
                                         !.predictions[row][colidx] = value]
    /\ UNCHANGED TrkFrame

NextTrk == TrackGetItemNumber \/ TrackSetItemStr \/ TrackSetItemTuple

SpecTrk == TrkInit /\ [][NextTrk]_vars

(***************************************************************************)
(* Projection of a datum onto some of its quantities (datum.c).  The two   *)
(* work arrays of datum_specific_quantities grow by realloc, one element   *)
(* for each requested label the datum has.                                 *)
(***************************************************************************)
MaxRequest == 2
SIZEOF_CHAR == 1
SIZEOF_POINTER == 8

\* the label sequences a caller asks for
RequestedLabels ==
    UNION {[0..(n - 1) -> {"x", "y", "z"}] : n \in 1..MaxRequest}

\* the positions of the request whose label the datum has, in order
RECURSIVE kept_positions(_, _, _)
kept_positions(d, labels, n_labels) ==
    IF n_labels = 0 THEN <<>>
    ELSE LET before == kept_positions(d, labels, n_labels - 1)
         IN  IF strindex(d.labels, labels[n_labels - 1], d.n_cols) >= 0
             THEN Append(before, n_labels - 1)
             ELSE before

\* the size in bytes of label_copies once it holds n_indices elements:
\* malloc(sizeof(char *)) for the first, then
\* realloc(label_copies, (n_indices + 1u) * sizeof(char)) with n_indices the
\* number held before
label_copies_size(n_indices) ==
    IF n_indices = 1 THEN SIZEOF_POINTER ELSE n_indices * SIZEOF_CHAR

\* element k of label_copies lies inside the allocation
label_copy_in_bounds(k, n_indices) ==
    (k + 1) * SIZEOF_POINTER <= label_copies_size(n_indices)

\* datum_specific_quantities(d, labels, n_labels), the stores to
\* label_copies having landed and been read back
datum_specific_quantities(d, labels, n_labels) ==
    LET kept == kept_positions(d, labels, n_labels)
        n_indices == Len(kept)
        indices == [i \in 0..(n_indices - 1) |->
                       strindex(d.labels, labels[kept[i + 1]], d.n_cols)]
        e(i, j) == d.cov.matrix[indices[i]][indices[j]]
        cov == MkMatrix(n_indices, n_indices, e)
        inverse == matrix_invert(cov, matrix_initialize(n_indices, n_indices))
    IN  IF n_indices = 0 THEN [null |-> TRUE]
        ELSE [null |-> FALSE,
              n_cols |-> n_indices,
              labels |-> [i \in 0..(n_indices - 1) |-> d.labels[indices[i]]],
              vector |-> [i \in 0..(n_indices - 1) |-> d.vector[indices[i]]],
              cov |-> cov,
              inv |-> IF inverse.ret = "NULL" THEN [null |-> TRUE]
                      ELSE inverse.result]

\* the same call when elements of label_copies outside its allocation are
\* read back as something else than what was stored
with_lost_label_copies(sub) ==
    IF sub.null THEN sub
    ELSE [sub EXCEPT !.labels =
             [i \in 0..(sub.n_cols - 1) |->
                 IF label_copy_in_bounds(i, sub.n_cols) THEN @[i] ELSE "?"]]

\* sub = datum_specific_quantities(d, labels, n_labels).  With two or more
\* labels kept, label_copies is written and read outside its allocation:
\* the stores survive, or are lost, or the process dies.
DatumProject ==
    /\ dat # NoDatum
    /\ cop.op # "project"
    /\ \E labels \in RequestedLabels :
          LET n_labels == Cardinality(DOMAIN labels)
              sub == datum_specific_quantities(dat, labels, n_labels)
              call == [op |-> "project", labels |-> labels,
                       n_labels |-> n_labels]
              overrun == ~sub.null /\
                         ~label_copy_in_bounds(sub.n_cols - 1, sub.n_cols)
          IN  \/ cop' = call @@ [raised |-> "none", sub |-> sub]
              \/ /\ overrun
                 /\ cop' = call @@ [raised |-> "none",
                                    sub |-> with_lost_label_copies(sub)]
              \/ /\ overrun
                 /\ cop' = call @@ [raised |-> "crash"]
    /\ UNCHANGED <<dat, nwrites, matVars, smpVars, likVars, quadVars>>

NextProj == DatumInit \/ CovSetItem \/ DatumProject

SpecProj == InitCov /\ [][NextProj]_vars

(***************************************************************************)
(* The per-datum sum with the predictions (likelihood.c).  exp, sqrt, log  *)
(* and the quadrature produce values that are no fractions, so of every    *)
(* double computed from them the model keeps its class: "nan", "-inf",     *)
(* "neg", "zero", "pos" or "inf".  Products, quotients, square roots,      *)
(* exponentials and logarithms act on the classes as IEEE 754 arithmetic   *)
(* does; overflow and underflow of finite values are out of reach of the   *)
(* magnitudes explored.  The weights explored are not negative, so the     *)
(* terms added up are never of opposite signs.  "real" is the class of a   *)
(* finite logarithm, of either sign.                                       *)
(***************************************************************************)
\* the class of a fraction
class_of(q) ==
    IF q[2] = 0
    THEN (IF q[1] > 0 THEN "inf" ELSE IF q[1] < 0 THEN "-inf" ELSE "nan")
    ELSE IF q[1] = 0 THEN "zero"
    ELSE IF (q[1] > 0) = (q[2] > 0) THEN "pos" ELSE "neg"

\* a * b
class_times(a, b) ==
    LET infinite == {"inf", "-inf"}
        negative == {"neg", "-inf"}
    IN  IF a = "nan" \/ b = "nan" THEN "nan"
        ELSE IF (a = "zero" /\ b \in infinite) \/ (b = "zero" /\ a \in infinite)
        THEN "nan"
        ELSE IF a = "zero" \/ b = "zero" THEN "zero"
        ELSE IF a \in infinite \/ b \in infinite
        THEN (IF (a \in negative) = (b \in negative) THEN "inf" ELSE "-inf")
        ELSE IF (a \in negative) = (b \in negative) THEN "pos" ELSE "neg"

\* a + b for terms that are not negative
class_plus(a, b) ==
    IF a = "nan" \/ b = "nan" THEN "nan"
    ELSE IF a = "inf" \/ b = "inf" THEN "inf"
    ELSE IF a = "zero" THEN b
    ELSE a

\* a / b, with b = +0 when b is zero
class_over(a, b) ==
    LET inverse == IF b = "zero" THEN "inf"
                   ELSE IF b \in {"inf", "-inf"} THEN "zero"
                   ELSE b
    IN  class_times(a, inverse)

\* sqrt(a)
class_sqrt(a) == IF a \in {"neg", "-inf"} THEN "nan" ELSE a

\* exp(a)
class_exp(a) ==
    IF a = "nan" THEN "nan"
    ELSE IF a = "-inf" THEN "zero"
    ELSE IF a = "inf" THEN "inf"
    ELSE "pos"

\* log(a)
class_log(a) ==
    IF a = "zero" THEN "-inf"
    ELSE IF a = "pos" THEN "real"
    ELSE IF a = "inf" THEN "inf"
    ELSE "nan"

\* a faulty projection that copies the columns in the order of the track
track_subset_in_track_order(d, t) ==
    LET index(i) == strindex(t.labels, d.labels[i], t.dim)
    IN  IF \E i \in 0..(d.n_cols - 1) : index(i) = -1
        THEN [null |-> TRUE]
        ELSE [null |-> FALSE,
              n_vectors |-> t.n_vectors,
              dim |-> d.n_cols,
              labels |-> [i \in 0..(d.n_cols - 1) |-> t.labels[i]],
              predictions |->
                  [j \in 0..(t.n_vectors - 1) |->
                      [i \in 0..(d.n_cols - 1) |-> t.predictions[j][i]]],
              weights |-> [i \in 0..(t.n_vectors - 1) |-> t.weights[i]],
              n_threads |-> t.n_threads,
              use_line_segment_corrections |-> t.use_line_segment_corrections]

\* track_subset(d, t) with its columns: NULL when a label of the datum is
\* not a label of the track
track_subset_columns(d, t) ==
    LET index(i) == strindex(t.labels, d.labels[i], t.dim)
    IN  IF \E i \in 0..(d.n_cols - 1) : index(i) = -1
        THEN [null |-> TRUE]
        ELSE [null |-> FALSE,
              n_vectors |-> t.n_vectors,
              dim |-> d.n_cols,
              labels |-> [i \in 0..(d.n_cols - 1) |-> t.labels[index(i)]],
              predictions |->
                  [j \in 0..(t.n_vectors - 1) |->
                      [i \in 0..(d.n_cols - 1) |-> t.predictions[j][index(i)]]],
              weights |-> [i \in 0..(t.n_vectors - 1) |-> t.weights[i]],
              n_threads |-> t.n_threads,
              use_line_segment_corrections |-> t.use_line_segment_corrections]

\* row * matrix * column^T for two rows of the length of the square matrix
bilinear(row, m, column) ==
    LET first == [j \in 0..(m.n_cols - 1) |->
                     RSumTo([k \in 0..(m.n_rows - 1) |->
                                RMul(row[k], m.matrix[k][j])], m.n_rows)]
    IN  RSumTo([j \in 0..(m.n_cols - 1) |-> RMul(first[j], column[j])],
               m.n_cols)

\* d - t[index]
datum_minus_trackpoint(d, t, index) ==
    [k \in 0..(d.n_cols - 1) |->
        RAdd(d.vector[k], RNeg(t.predictions[index][k]))]

\* t[index + 1] - t[index]
linesegment(t, index) ==
    [k \in 0..(t.dim - 1) |->
        RAdd(t.predictions[index + 1][k], RNeg(t.predictions[index][k]))]

\* chi_squared(d, t, index) = delta * inv * delta^T
chi_squared(d, t, index) ==
    LET delta == datum_minus_trackpoint(d, t, index)
    IN  bilinear(delta, d.inv, delta)

\* a faulty segment length: the final vertex is given the length of the
\* segment that ends in it (a length of 1 for a single vertex)
delta_model_backwards(t, index) ==
    IF index < t.n_vectors - 1
    THEN LET delta == linesegment(t, index)
         IN  class_sqrt(class_of(RSumTo([i \in 0..(t.dim - 1) |->
                                            RMul(delta[i], delta[i])], t.dim)))
    ELSE "pos"

\* delta_model(t, index): the class of the length of the segment that starts
\* at the vertex, 0 for the final vertex
delta_model(t, index) ==
    IF index < t.n_vectors - 1
    THEN LET delta == linesegment(t, index)
         IN  class_sqrt(class_of(RSumTo([i \in 0..(t.dim - 1) |->
                                            RMul(delta[i], delta[i])], t.dim)))
    ELSE "zero"

\* corrective_factor(d, t, index): the class of the integral over [0, 1] of
\* exp(-(a q^2 - 2 b q) / 2), a positive integrand when a and b are finite;
\* 0 for the final vertex
corrective_factor(d, t, index) ==
    IF index < t.n_vectors - 1
    THEN LET segment == linesegment(t, index)
             a == bilinear(segment, d.inv, segment)
             b == bilinear(datum_minus_trackpoint(d, t, index), d.inv, segment)
         IN  IF RIsFinite(a) /\ RIsFinite(b) THEN "pos" ELSE "nan"
    ELSE "zero"

\* the term s of the vertex index in the loop of loglikelihood_datum
contribution(d, t, sub, index) ==
    LET weighted == class_of(sub.weights[index])
        likelihood == class_times(weighted,
                          class_exp(class_of(RMul(<<-1, 2>>,
                                                  chi_squared(d, sub, index)))))
        s == class_times(likelihood, delta_model(sub, index))
    IN  IF t.use_line_segment_corrections
        THEN class_times(s, corrective_factor(d, sub, index))
        ELSE s

RECURSIVE class_sum(_, _)
class_sum(terms, n) ==
    IF n = 0 THEN "zero" ELSE class_plus(class_sum(terms, n - 1), terms[n - 1])

\* loglikelihood_datum(d, t) with the classes of its terms, of their sum and
\* of the logarithm returned; exits the process when track_subset fails
loglikelihood_datum_classes(d, t, calling_function) ==
    LET normalizes == calling_function # 0 /\ t.normalize_weights
        norm == normalize_weights(t)
        t1 == IF normalizes THEN [t EXCEPT !.weights = norm.weights] ELSE t
        sub == track_subset_columns(d, t1)
        terms == [i \in 0..(t.n_vectors - 1) |-> contribution(d, t, sub, i)]
        result == class_sum(terms, t.n_vectors)
        det == class_of(matrix_determinant(d.cov))
    IN  IF sub.null
        THEN [exited |-> TRUE, weights |-> t1.weights]
        ELSE [exited |-> FALSE,
              track |-> t1,
              sub |-> sub,
              terms |-> terms,
              result |-> result,
              det |-> det,
              logl |-> class_log(class_over(result, class_sqrt(det))),
              weights |-> IF normalizes
                          THEN unnormalize_weights(t1, norm.weight_norm)
                          ELSE t1.weights]

\* loglikelihood_sample(s, t) for a sample of the one datum d, one thread:
\* the classes are those of the one call of loglikelihood_datum
loglikelihood_sample_of_one(d, t) ==
    LET norm == normalize_weights(t)
        t1 == IF t.normalize_weights
              THEN [t EXCEPT !.weights = norm.weights] ELSE t
        one == loglikelihood_datum_classes(d, t1, 1)
        t2 == [t1 EXCEPT !.weights = one.weights]
    IN  IF one.exited THEN one
        ELSE [one EXCEPT !.weights =
                  IF t.normalize_weights
                  THEN unnormalize_weights(t2, norm.weight_norm)
                  ELSE t2.weights]

\* track.keys()
track_keys(t) == {t.labels[i] : i \in 0..(t.dim - 1)}

\* the data evaluated: a value for each of the first labels of the pool,
\* each with no uncertainty or with an uncertainty of 0 or 1
TermsData ==
    UNION {{datum_init(MappingOf(opts, n, FALSE)).datum :
                opts \in [1..n -> {<<>>, <<<<"sfx", 0>>>>, <<<<"sfx", 1>>>>}]} :
           n \in 1..MaxDatumDim}

\* a track with labels, predictions, weights and flags, and a datum
TermsInit ==
    /\ \E n \in 1..MaxVertices, labels \in TrackLabelSeqs :
          \E predictions \in [0..(n - 1) ->
                                 [DOMAIN labels -> {R(v) : v \in 0..MaxPrediction}]],
             weights \in [0..(n - 1) -> {R(v) : v \in 0..MaxWeight}] :
             ltrack = [n_vectors |-> n,
                       dim |-> Cardinality(DOMAIN labels),
                       labels |-> labels,
                       predictions |-> predictions,
                       weights |-> weights,
                       n_threads |-> 1,
                       normalize_weights |-> TRUE,
                       use_line_segment_corrections |-> FALSE]
    /\ lik = NoOp
    /\ ldata = <<>>
    /\ thr = <<>>
    /\ by_thread = <<>>
    /\ CALLING_FUNCTION = 0
    /\ ghost = NoOp
    /\ dat \in TermsData /\ cop = NoOp /\ nwrites = 0
    /\ MatIdle /\ SmpIdle /\ QuadIdle

TermsFrame == <<ldata, thr, by_thread, CALLING_FUNCTION, ghost,
                matVars, covVars, smpVars, quadVars>>

\* what lik records of a call that went through loglikelihood_datum
TermsRecord(op, r, t) ==
    IF r.exited
    THEN [op |-> op, raised |-> "exit"]
    ELSE [op |-> op, raised |-> "none", n_vectors |-> t.n_vectors,
          track |-> r.track, sub |-> r.sub, terms |-> r.terms, result |-> r.result,
          det |-> r.det, logl |-> r.logl]

\* d.loglikelihood(t, normalize_weights = ..., use_line_segment_corrections
\* = ...) with quantities = None
TermsDatum ==
    /\ dat # NoDatum
    /\ IF lik.op = "none" THEN TRUE ELSE lik.raised # "exit"
    /\ \E normalize \in BOOLEAN, corrections \in BOOLEAN :
          LET t == [ltrack EXCEPT !.normalize_weights = normalize,
                                  !.use_line_segment_corrections = corrections]
              r == loglikelihood_datum_classes(dat, t, CALLING_FUNCTION)
          IN  IF ~keys_covered(datum_keys(dat), track_keys(t))
              THEN /\ ltrack' = t
                   /\ lik' = [op |-> "datum", raised |-> "ValueError"]
              ELSE /\ ltrack' = [t EXCEPT !.weights = r.weights]
                   /\ lik' = TermsRecord("datum", r, t)
    /\ UNCHANGED TermsFrame

\* sample([d]).loglikelihood(t, normalize_weights = ...,
\* use_line_segment_corrections = ...) with quantities = None
TermsSample ==
    /\ dat # NoDatum
    /\ IF lik.op = "none" THEN TRUE ELSE lik.raised # "exit"
    /\ \E normalize \in BOOLEAN, corrections \in BOOLEAN :
          LET t == [ltrack EXCEPT !.normalize_weights = normalize,
                                  !.use_line_segment_corrections = corrections]
              r == loglikelihood_sample_of_one(dat, t)
          IN  IF ~keys_covered(datum_keys(dat), track_keys(t))
              THEN /\ ltrack' = t
                   /\ lik' = [op |-> "sample", raised |-> "ValueError"]
              ELSE /\ ltrack' = [t EXCEPT !.weights = r.weights]
                   /\ lik' = TermsRecord("sample", r, t)
    /\ UNCHANGED TermsFrame

NextTerms == TermsDatum \/ TermsSample

SpecTerms == TermsInit /\ [][NextTerms]_vars

(***************************************************************************)
(* Comparison of two datum objects (datum.pyx).  dat is the left operand;  *)
(* cop records the right operand and the value returned.                   *)
(***************************************************************************)
MaxEqDim == 3

\* the orders in which n labels of the pool can be stored
LabelOrders(n) ==
    {p \in [1..n -> {LabelPool[k] : k \in 1..n}] :
        \A a, b \in 1..n : a # b => p[a] # p[b]}

\* datum({labels[1]: values[1], ...}), keys in this order
EqMapping(labels, values, n) ==
    [keys |-> [k \in 1..n |-> Key(labels[k], "qty")],
     val |-> [key \in {Key(labels[k], "qty") : k \in 1..n} |->
                 R(values[CHOOSE k \in 1..n : labels[k] = key.base])]]

\* the datum objects compared
EqData ==
    UNION {{datum_init(EqMapping(labels, values, n)).datum :
                labels \in LabelOrders(n), values \in [1..n -> 0..MaxValue]} :
           n \in 1..MaxEqDim}

\* the loop of datum.__eq__ from index i on, with eq as it stands
RECURSIVE eq_loop(_, _, _, _)
eq_loop(self, other, i, eq) ==
    IF i = other.n_cols THEN eq
    ELSE LET idx == strindex(self.labels, other.labels[i], self.n_cols)
         IN  IF idx = -1 THEN FALSE
             ELSE LET eq1 == eq /\ self.vector[i] = other.vector[idx]
                  IN  IF ~eq1 THEN eq1
                      ELSE eq_loop(self, other, i + 1, eq1)

\* datum.__eq__(self, other)
datum_eq(self, other) ==
    IF self.n_cols = other.n_cols THEN eq_loop(self, other, 0, TRUE)
    ELSE FALSE

EqInit ==
    /\ dat \in EqData
    /\ cop = NoOp
    /\ nwrites = 0
    /\ MatIdle /\ SmpIdle /\ LikIdle /\ QuadIdle

\* dat == other
DatumEq ==
    /\ \E other \in EqData :
          cop' = [op |-> "eq", other |-> other, value |-> datum_eq(dat, other)]
    /\ UNCHANGED <<dat, nwrites, matVars, smpVars, likVars, quadVars>>

NextEq == DatumEq

SpecEq == EqInit /\ [][NextEq]_vars

(***************************************************************************)
(* Claims about the matrix kernel and the covariance matrix.               *)
(***************************************************************************)
\* the adjugate as the spec defines it: the transpose of the matrix of
\* cofactors C[i][j] = (-1)^(i+j) det(minor(m, i, j))
MathAdjugate(m) ==
    LET e(j, i) == RMul(PowMinusOne(i + j), MathDet(matrix_minor(m, i, j)))
    IN  MkMatrix(m.n_rows, m.n_cols, e)

MathAdjugateOverDet(m) ==
    LET adj == MathAdjugate(m)
        e(i, j) == RDiv(adj.matrix[i][j], MathDet(m))
    IN  MkMatrix(m.n_rows, m.n_cols, e)

InvertReturned == mop.op = "invert" /\ mop.raised = "none"
MatSquare == mat # NoMatrix /\ mat.n_rows = mat.n_cols

\* C7: for every square matrix M of size n >= 1 with det(M) # 0, invert(M)
\* equals adjugate(M) / det(M) and mul(M, invert(M)) is the identity of size n.
C7_InvertIsInverse ==
    (MatSquare /\ InvertReturned /\ MathDet(mat) # Zero) =>
        /\ mop.value = MathAdjugateOverDet(mat)
        /\ matrix_multiply(mat, mop.value) = Identity(mat.n_rows)

\* C8: invert(m) on a square matrix with det(m) = 0 fails with the Singular
\* error; no matrix value is returned as the inverse.
C8_SingularInvertFails ==
    (MatSquare /\ mop.op = "invert" /\ MathDet(mat) = Zero) =>
        mop.raised # "none"

SetItemSucceeded == cop.op = "setitem" /\ cop.raised = "none"

\* C5: after any successful element assignment to a covariance matrix, inv
\* has been recomputed so that the product of the matrix and inv is the
\* identity.
C5_InvFreshAfterAssignment ==
    SetItemSucceeded =>
        matrix_multiply(dat.cov, dat.inv) = Identity(dat.n_cols)

DatumConstructed == cop.op = "init" /\ cop.raised = "none"
HasUncertainty(mapping) ==
    \E i \in 1..Len(mapping.keys) : err_tag(mapping.keys[i])
\* the uncertainty the mapping supplies for a label (<key>_err before err_<key>)
SuppliedErr(mapping, q) ==
    IF KeyIn(Key(q, "sfx"), mapping.keys) THEN mapping.val[Key(q, "sfx")]
    ELSE IF KeyIn(Key(q, "pfx"), mapping.keys) THEN mapping.val[Key(q, "pfx")]
    ELSE One

\* C6: immediately after a Datum is constructed from a mapping that supplies
\* uncertainty entries, its covariance diagonal holds the squared
\* uncertainties and cov.inv is the arithmetic inverse of that covariance.
C6_InvFreshAfterConstruction ==
    (DatumConstructed /\ HasUncertainty(cop.mapping)) =>
        /\ \A i \in 0..(dat.n_cols - 1) :
              dat.cov.matrix[i][i] =
                  RMul(SuppliedErr(cop.mapping, dat.labels[i]),
                       SuppliedErr(cop.mapping, dat.labels[i]))
        /\ matrix_multiply(dat.cov, dat.inv) = Identity(dat.n_cols)

(***************************************************************************)
(* Claims about samples.                                                   *)
(***************************************************************************)
\* whether a datum qualifies for a filter: its value for the label satisfies
\* the condition, or it lacks the label and such data are kept
Qualifies(d, label, condition_indicator, value, keep) ==
    IF label \in datum_keys(d)
    THEN Compare(condition_indicator,
                 d.vector[CHOOSE i \in 0..(d.n_cols - 1) : d.labels[i] = label],
                 value)
    ELSE keep

RECURSIVE QualifyingData(_, _, _, _, _, _, _)
QualifyingData(hp, smp, n, label, condition_indicator, value, keep) ==
    IF n = 0 THEN <<>>
    ELSE LET rest == QualifyingData(hp, smp, n - 1, label, condition_indicator,
                                    value, keep)
         IN  IF Qualifies(hp[smp[n]], label, condition_indicator, value, keep)
             THEN Append(rest, smp[n])
             ELSE rest

FilterQualifying ==
    QualifyingData(heap, samples[sop.src], Len(samples[sop.src]), sop.label,
                   sop.condition, sop.value, sop.keep)

\* C9: the sample a filter returns holds exactly the data of the filtered
\* sample that satisfy the condition on the label, together with, when
\* keep_missing_measurements is set, those that lack the label.
C9_FilterReturnsQualifying ==
    sop.op = "filter" => samples[sop.sub] = FilterQualifying

\* C10: every datum a sample holds shadows exactly the sample's labels it does
\* not measure; this covers the samples that filtering derives from another.
C10_ShadowIsSampleMinusOwn ==
    \A s \in 1..Len(samples) : \A k \in 1..Len(samples[s]) :
        heap[samples[s][k]].shadow_keys =
            sample_keys(heap, samples[s]) \ datum_keys(heap[samples[s][k]])

(***************************************************************************)
(* Claims about the threaded likelihood of a sample.                       *)
(***************************************************************************)
Returned == lik.phase = "done" /\ lik.raised = "none"
InRegion == lik.phase = "region"
SampleSize == Len(ldata)

\* C1: with normalize_weights set, one evaluation of a sample normalizes the
\* weights once, before the parallel loop, and un-normalizes them once, after
\* it; while the threads run no per-datum evaluation normalizes, un-normalizes
\* or writes the track.
C1_TrackReadOnlyInRegion ==
    /\ (InRegion \/ Returned) => ghost.region_writes = 0
    /\ (InRegion /\ ltrack.normalize_weights) =>
           ghost.normalize_calls = 1 /\ ghost.unnormalize_calls = 0
    /\ (Returned /\ ltrack.normalize_weights) =>
           ghost.normalize_calls = 1 /\ ghost.unnormalize_calls = 1

\* C2: the index sets the threads of the team handle are pairwise disjoint
\* and, once the loop is over, cover [0, N); no datum is evaluated twice and
\* at the end each exactly once; a partial-sum slot is written by the thread
\* of that number only, and the number is below n_threads.
C2_DisjointCoverOwnSlot ==
    (InRegion \/ Returned) =>
        /\ \A t1 \in Team, t2 \in Team :
               t1 # t2 => ghost.handled[t1] \cap ghost.handled[t2] = {}
        /\ \A i \in 0..(SampleSize - 1) : CopiesIn(i, ghost.evaluated) <= 1
        /\ \A slot \in DOMAIN ghost.slot_writers :
               slot < ltrack.n_threads /\ ghost.slot_writers[slot] \subseteq {slot}
        /\ Returned =>
               /\ UNION {ghost.handled[t] : t \in Team} = 0..(SampleSize - 1)
               /\ \A i \in 0..(SampleSize - 1) :
                      CopiesIn(i, ghost.evaluated) = 1

C2_Witness ==
    /\ Returned /\ ltrack.n_threads = 2 /\ SampleSize = 2
    /\ ghost.handled[0] # {} /\ ghost.handled[1] # {}

\* the serial value: every datum evaluated once on the track as it stands
\* after the one normalization (or as given), adjusted by the weight term
SerialLogL ==
    LET t0 == [n_vectors |-> ltrack.n_vectors, weights |-> ghost.weights0]
        w == IF ltrack.normalize_weights THEN normalize_weights(t0).weights
             ELSE ghost.weights0
    IN  [terms |-> SetToBag({DatumTerm(i, w) : i \in 0..(SampleSize - 1)}),
         offset |-> IF ltrack.normalize_weights THEN Zero
                    ELSE RNeg(RSumTo(ghost.weights0, ltrack.n_vectors))]

NonzeroSum == RSumTo(ghost.weights0, ltrack.n_vectors) # Zero

\* C4: when the weights have a nonzero sum and an evaluation with
\* normalize_weights set returns, every weight of the track has the value it
\* had before the call.
C4_WeightsRestored ==
    (Returned /\ ltrack.normalize_weights /\ NonzeroSum) =>
        ltrack.weights = ghost.weights0

C4_Witness ==
    /\ Returned /\ ltrack.normalize_weights /\ NonzeroSum
    /\ SampleSize >= 1 /\ ltrack.n_vectors = 2
    /\ ghost.weights0[0] # ghost.weights0[1]
    /\ ltrack.weights = ghost.weights0

\* the weights the per-datum evaluations have used so far: those of the terms
\* added to the partial sums or to the value returned
WeightsUsed ==
    IF Returned THEN {term.w : term \in BagToSet(lik.logl.terms)}
    ELSE IF InRegion
    THEN UNION {{term.w : term \in BagToSet(by_thread[tid])} : tid \in Team}
    ELSE {}

WeightSum0 == RSumTo(ghost.weights0, ltrack.n_vectors)

C13_UnnormalizedSubtractsWeightSum ==
    (Returned /\ ~ltrack.normalize_weights) =>
        /\ lik.logl.terms =
               SetToBag({DatumTerm(i, ghost.weights0) :
                            i \in 0..(SampleSize - 1)})
        /\ lik.logl.offset = RNeg(WeightSum0)
        /\ ltrack.weights = ghost.weights0

C13_Witness ==
    /\ Returned /\ ~ltrack.normalize_weights /\ SampleSize = 2
    /\ ltrack.n_vectors = 2 /\ lik.logl.offset = R(-2)

(***************************************************************************)
(* Claims about the likelihood calls of the Python layer.                  *)
(***************************************************************************)
\* whether the weights w are those of v multiplied by a positive constant
PositiveMultiple(w, v) ==
    /\ DOMAIN w = DOMAIN v
    /\ \E p \in 1..MaxAssignedWeight, q \in 1..MaxAssignedWeight :
           \A i \in DOMAIN w : RMul(w[i], R(q)) = RMul(v[i], R(p))

\* the last call is a sample evaluation with normalize_weights set that
\* returned, the evaluation before it was one too, with the same line segment
\* setting, and the weights are a positive multiple of what they were then
RescaledEvaluation ==
    /\ NormalizedSampleValue
    /\ ghost.prev.op = "sample"
    /\ ghost.prev.corrections = ltrack.use_line_segment_corrections
    /\ PositiveMultiple(lik.weights_in, ghost.prev.weights)

\* C12: with normalize_weights set, multiplying all the weights of the track
\* by a positive constant leaves the log-likelihood of the sample unchanged.
C12_ScalingInvariance == RescaledEvaluation => lik.logl = ghost.prev.logl

C12_Witness ==
    /\ RescaledEvaluation /\ Len(ldata) >= 1 /\ ltrack.n_vectors = 2
    /\ lik.weights_in # ghost.prev.weights
    /\ lik.weights_in[0] # Zero /\ lik.weights_in[1] # Zero
    /\ lik.logl = ghost.prev.logl

\* the labels of the datum or of the sample the last call evaluated
EvaluatedLabels ==
    IF lik.op = "datum" THEN ldata[lik.k]
    ELSE UNION {ldata[k] : k \in 1..Len(ldata)}

C15_NThreadsWithinCap ==
    /\ ltrack.n_threads <= max_threads_allowed(ghost.cpu_count)
    /\ (lik.phase = "done" /\ lik.raised = "none"
            /\ lik.value[1] > max_threads_allowed(ghost.cpu_count)) =>
           ltrack.n_threads = max_threads_allowed(ghost.cpu_count)

(***************************************************************************)
(* Claims about the elements of a covariance matrix.                       *)
(***************************************************************************)
\* C16: whatever mapping the datum was built from and whatever was assigned
\* since, every diagonal element of its covariance matrix is greater than
\* 1e-12.
C16_DiagonalAboveMin ==
    dat # NoDatum =>
        \A i \in 0..(dat.n_cols - 1) : GtCovMin(dat.cov.matrix[i][i])

\* a diagonal assignment of a value that is not positive or not above 1e-12
InvalidDiagonalAssignment ==
    /\ cop.op = "setitem"
    /\ cop.i = cop.j /\ cop.i \in 0..(cop.before.n_cols - 1)
    /\ (cop.value[1] <= 0 \/ cop.value = Tiny)

\* C17: a diagonal assignment of a value that is not strictly positive or not
\* greater than 1e-12 fails with an error and leaves the elements of the
\* matrix and of its inverse as they were.
C17_InvalidDiagonalRejected ==
    InvalidDiagonalAssignment =>
        /\ cop.raised = "ValueError"
        /\ dat.cov = cop.before.cov
        /\ dat.inv = cop.before.inv

C17_Witness ==
    /\ InvalidDiagonalAssignment /\ cop.value = Tiny
    /\ cop.raised = "ValueError" /\ dat.n_cols = 2 /\ dat = cop.before

\* C18: after any sequence of assignments element (i, j) of the covariance
\* matrix equals element (j, i).
C18_Symmetric ==
    dat # NoDatum =>
        \A i \in 0..(dat.n_cols - 1), j \in 0..(dat.n_cols - 1) :
            dat.cov.matrix[i][j] = dat.cov.matrix[j][i]

C18_Witness ==
    /\ dat # NoDatum /\ cop.op = "setitem" /\ cop.raised = "none"
    /\ cop.i # cop.j /\ cop.value # Zero /\ nwrites = 2
    /\ dat.cov.matrix[0][1] = cop.value /\ dat.cov.matrix[1][0] = cop.value


(***************************************************************************)
(* Claims about the expansion axis of the determinant.                     *)
(***************************************************************************)
\* the zero counts of all rows and all columns of m
AxisZeroCounts(m) ==
    {matrix_zeros_along_axis(m, i, TRUE) : i \in 0..(m.n_rows - 1)} \cup
    {matrix_zeros_along_axis(m, j, FALSE) : j \in 0..(m.n_cols - 1)}

\* determinant() has run on a square matrix larger than 2x2
ExpandedByMinors ==
    /\ mop.op = "determinant"
    /\ mat.n_rows = mat.n_cols
    /\ mat.n_rows > 2

\* C19: for a square matrix of size greater than 2, the axis the determinant
\* expands along has the greatest number of zero entries among all rows and
\* all columns of the matrix.
C19_IdealAxisHasMostZeros ==
    ExpandedByMinors =>
        LET axis == matrix_determinant_ideal_axis(mat)
        IN  matrix_zeros_along_axis(mat, axis.index, axis.along_row)
                = SetMax(AxisZeroCounts(mat))


(***************************************************************************)
(* Claims about quadrature.                                                *)
(***************************************************************************)
\* C20: when quad returns, the subinterval count it reports is the number
\* of subintervals used to compute the estimate it returns.
C20_ItersIsBinsOfResult ==
    quad_call.op = "quad" => intgrl.iters = quad_call.n_bins

(***************************************************************************)
(* Claims about the loop of quad.                                          *)
(***************************************************************************)
QuadRunning == quad_call.op = "quad_steps"
QuadReturned == QuadRunning /\ quad_call.pc = "returned"

\* the number of doublings that take n to n_max or beyond
RECURSIVE Doublings(_, _)
Doublings(n, n_max) == IF n >= n_max THEN 0 ELSE 1 + Doublings(2 * n, n_max)

RECURSIVE Pow2(_)
Pow2(k) == IF k = 0 THEN 1 ELSE 2 * Pow2(k - 1)

WithinTolerance == ~RLt(intgrl.tolerance, intgrl.error)

\* the count starts at n_min rounded up to even and doubles on each pass;
\* the loop goes on only while the change exceeds the tolerance and the
\* count is below n_max, and is left as soon as either fails; the passes
\* number at most the doublings from the first count to n_max, plus one
QuadLoopShape ==
    QuadRunning =>
        LET n0 == IF intgrl.n_min % 2 = 0 THEN intgrl.n_min
                  ELSE intgrl.n_min + 1
        IN  /\ quad_call.n = n0 * Pow2(quad_call.passes)
            /\ quad_call.passes <= Doublings(n0, intgrl.n_max) + 1
            /\ (quad_call.pc = "loop" /\ quad_call.passes >= 1) =>
                   (~WithinTolerance /\ quad_call.n < intgrl.n_max)
            /\ quad_call.pc \in {"exit", "returned"} =>
                   /\ quad_call.passes >= 1
                   /\ (WithinTolerance \/ quad_call.n >= intgrl.n_max)

\* C21: for every n_min >= 1, n_max and tolerance, quad terminates: it starts
\* at n_min rounded up to even, doubles the count on each pass, stops as soon
\* as the change is within tolerance or the count reaches n_max, and makes at
\* most (doublings from n_min to n_max) + 1 passes.
C21_QuadTerminates == []QuadLoopShape /\ <>QuadReturned

\* a call that returned after three passes, stopped by n_max
C21_Witness ==
    QuadReturned /\ quad_call.passes >= 3 /\ ~WithinTolerance


(***************************************************************************)
(* Claims about indexing and item assignment of a track.                   *)
(***************************************************************************)
GotItem == lik.op = "getitem_number" /\ lik.raised = "none"

\* C22: indexing a track by a vertex index returns a mapping that holds every
\* label of the track with that vertex's prediction, and the key "weights"
\* with that vertex's weight.
C22_ItemHasLabelsAndWeights ==
    GotItem =>
        /\ \A j \in 0..(ltrack.dim - 1) :
              LET got == linked_dict_getitem(ltrack, lik.item, ltrack.labels[j])
              IN  got.raised = "none" /\
                  got.value = ltrack.predictions[lik.row][j]
        /\ "weights" \in linked_dict_keys(lik.item)
        /\ LET got == linked_dict_getitem(ltrack, lik.item, "weights")
           IN  got.raised = "none" /\ got.value = ltrack.weights[lik.row]

\* the step is a returned call t["weights"] = value, value of the track's length
AssignsWeights ==
    /\ lik'.op = "setitem_str" /\ lik'.label = "weights"
    /\ lik'.raised = "none"
    /\ Cardinality(DOMAIN lik'.value) = ltrack.n_vectors

\* C29: assigning a sequence of n_vertices numbers under the label "weights"
\* sets weights[i] to the i-th value for every vertex i and leaves every
\* prediction and the dimensions of the track unchanged.
C29_WeightsAssigned ==
    [][AssignsWeights =>
          /\ \A i \in 0..(ltrack.n_vectors - 1) :
                ltrack'.weights[i] = lik'.value[i]
          /\ ltrack'.predictions = ltrack.predictions
          /\ ltrack'.n_vectors = ltrack.n_vectors
          /\ ltrack'.dim = ltrack.dim
          /\ ltrack'.labels = ltrack.labels]_vars

(***************************************************************************)
(* Claims about the projection of a datum.                                 *)
(***************************************************************************)
Projected == cop.op = "project"

\* the requested labels that the datum has, in the order of the request
RECURSIVE RequestedAndHeld(_, _)
RequestedAndHeld(labels, n) ==
    IF n = 0 THEN <<>>
    ELSE LET before == RequestedAndHeld(labels, n - 1)
         IN  IF labels[n - 1] \in datum_keys(dat)
             THEN Append(before, labels[n - 1]) ELSE before

\* C23: project(d, labels) returns a new datum whose labels are the requested
\* labels that d has, in the order of the request; the value of each is d's
\* value, and the covariance entry of each pair is d's entry for that pair.
C23_ProjectionKeepsValues ==
    (Projected /\ RequestedAndHeld(cop.labels, cop.n_labels) # <<>>) =>
        LET held == RequestedAndHeld(cop.labels, cop.n_labels)
            col(l) == strindex(dat.labels, l, dat.n_cols)
        IN  /\ cop.raised = "none"
            /\ ~cop.sub.null
            /\ cop.sub.n_cols = Len(held)
            /\ \A i \in 0..(Len(held) - 1) :
                  /\ cop.sub.labels[i] = held[i + 1]
                  /\ cop.sub.vector[i] = dat.vector[col(held[i + 1])]
                  /\ \A j \in 0..(Len(held) - 1) :
                        cop.sub.cov.matrix[i][j] =
                            dat.cov.matrix[col(held[i + 1])][col(held[j + 1])]

(***************************************************************************)
(* Claims about the terms of the per-datum sum.                            *)
(***************************************************************************)
\* a call that went through loglikelihood_datum and returned
TermsReturned == lik.op \in {"datum", "sample"} /\ lik.raised = "none"

\* the index of the final vertex in the last call
FinalVertex == lik.n_vectors - 1

FinalWeightFinite == RIsFinite(lik.sub.weights[FinalVertex])

DeterminantReturned == mop.op = "determinant" /\ mop.raised = "none"

\* C25: for every square matrix, the determinant computed by expansion by
\* minors along the ideal axis (a row or a column, zero entries skipped,
\* sign (-1)^(i+j)) equals the one computed by expansion along the first row.
C25_IdealAxisAgreesWithFirstRow ==
    DeterminantReturned => mop.value = matrix_determinant_first_row(mat)

\* a determinant that is not 0, expanded along a column
C25_Witness ==
    /\ DeterminantReturned /\ ExpandedByMinors
    /\ ~matrix_determinant_ideal_axis(mat).along_row
    /\ mop.value # Zero

(***************************************************************************)
(* Claims about the projection of the track onto a datum.                  *)
(***************************************************************************)
\* the columns of the track t whose labels are in the set L
KeptColumns(t, L) == {c \in 0..(t.dim - 1) : t.labels[c] \in L}

\* the k-th of them, in the order of the track
NthKept(t, L, k) ==
    CHOOSE c \in KeptColumns(t, L) :
        Cardinality({b \in KeptColumns(t, L) : b < c}) = k

\* the track t restricted to the labels in L: the other columns are dropped
RestrictedTo(t, L) ==
    LET dim == Cardinality(KeptColumns(t, L))
    IN  [t EXCEPT !.dim = dim,
                  !.labels = [k \in 0..(dim - 1) |-> t.labels[NthKept(t, L, k)]],
                  !.predictions =
                      [j \in 0..(t.n_vectors - 1) |->
                          [k \in 0..(dim - 1) |->
                              t.predictions[j][NthKept(t, L, k)]]]]

\* C26: for a datum d and a track T that has all of d's labels, the
\* projected track has as many columns as d has labels, its column i holds
\* T's predictions for the label d.labels[i] at every vertex, its weights are
\* T's weights, and projecting T restricted to d's labels gives the same
\* track, hence the same terms.
C26_SubsetFollowsDatumLabels ==
    TermsReturned =>
        LET T == lik.track
            sub == lik.sub
        IN  /\ sub.dim = dat.n_cols
            /\ sub.n_vectors = T.n_vectors
            /\ \A i \in 0..(dat.n_cols - 1) :
                  \E c \in 0..(T.dim - 1) :
                     /\ T.labels[c] = dat.labels[i]
                     /\ sub.labels[i] = dat.labels[i]
                     /\ \A j \in 0..(T.n_vectors - 1) :
                           sub.predictions[j][i] = T.predictions[j][c]
            /\ \A j \in 0..(T.n_vectors - 1) : sub.weights[j] = T.weights[j]
            /\ track_subset_columns(dat, RestrictedTo(T, datum_keys(dat))) = sub

\* a datum of two labels against a track that stores them the other way
\* round, with two columns that differ
C26_Witness ==
    /\ TermsReturned
    /\ dat.n_cols = 2 /\ lik.track.dim = 2
    /\ lik.track.labels[0] = dat.labels[1]
    /\ \E j \in 0..(lik.track.n_vectors - 1) :
          lik.track.predictions[j][0] # lik.track.predictions[j][1]

(***************************************************************************)
(* Claims about a datum evaluated on its own.                              *)
(***************************************************************************)
\* the last call is d.loglikelihood(t) with normalize_weights set, made from
\* Python and not from a sample evaluation, and it returned
DirectDatumValue ==
    /\ lik.phase = "done" /\ lik.op = "datum" /\ lik.raised = "none"
    /\ ltrack.normalize_weights
    /\ CALLING_FUNCTION = 0

\* the track of the last call with its weights multiplied by c
TrackScaledBy(c) ==
    [ltrack EXCEPT !.weights = [i \in 0..(ltrack.n_vectors - 1) |->
                                   RMul(lik.weights_in[i], R(c))]]

\* C27: a per-datum evaluation invoked directly with normalize_weights set
\* computes with the normalized weights and restores the weights before it
\* returns, so the value is the one it returns for the weights multiplied by
\* any positive constant.
C27_DirectDatumNormalizes ==
    DirectDatumValue =>
        /\ lik.logl.terms =
              SetToBag({DatumTerm(lik.k - 1,
                                  normalize_weights(TrackScaledBy(1)).weights)})
        /\ ltrack.weights = lik.weights_in
        /\ \A c \in 1..MaxAssignedWeight :
              lik.logl.terms =
                  SetToBag({loglikelihood_datum(lik.k - 1, ldata[lik.k],
                                TrackScaledBy(c), CALLING_FUNCTION).value})

(***************************************************************************)
(* Claims about the flags of the track.                                    *)
(***************************************************************************)
\* C28: evaluating a per-datum or sample log-likelihood against a track
\* leaves the flags use_line_segment_corrections and normalize_weights of the
\* track as they were before the call, whether the call succeeds or fails.
C28_EvaluationKeepsFlags ==
    [][(EvalSample \/ EvalDatum) =>
          /\ ltrack'.normalize_weights = ltrack.normalize_weights
          /\ ltrack'.use_line_segment_corrections
                = ltrack.use_line_segment_corrections]_vars

(***************************************************************************)
(* Claims about the comparison of datum objects.                           *)
(***************************************************************************)
\* the value the datum d stores for a label it has
StoredValue(d, label) ==
    d.vector[CHOOSE i \in 0..(d.n_cols - 1) : d.labels[i] = label]

\* C30: equality of two datum objects returns true if and only if both have
\* the same set of labels and store equal values for every label, in
\* whatever order each of them stores its labels.
C30_EqIffSameLabelsAndValues ==
    cop.op = "eq" =>
        (cop.value <=>
            /\ datum_keys(dat) = datum_keys(cop.other)
            /\ \A label \in datum_keys(dat) :
                  StoredValue(dat, label) = StoredValue(cop.other, label))

====
